---- MODULE Spec2Model ----
(***************************************************************************)
(* The AI-agent edge function (supabase/functions/ai-agent/index.ts): the  *)
(* request handler, the stream relay inside it and the parallel tool       *)
(* executor, as one state machine.  Backend operations (database client,   *)
(* edge-function collaborators, the model gateway) are the environment:    *)
(* each awaited operation resolves with one of the outcomes in Outcomes.   *)
(***************************************************************************)
EXTENDS Integers, Sequences, FiniteSets, TLC

(* ------------------------------ bounds -------------------------------- *)

\* Longest tool-call batch handed to executeToolsParallel in SpecTools.
MaxBatch == 2

\* Most records the upstream model stream carries before it ends.
MaxLines == 3

(* ------------------------------ values -------------------------------- *)

\* response_preview: responseContent.substring(0, 500)
PreviewLength == 500
\* .limit(20) of the history query
HistoryLimit == 20

\* JavaScript's undefined and null, where the code lets them flow.
Undef == "undefined"
Null == "null"

\* What an awaited backend operation can do: succeed, resolve with an
\* {error} value (nothing applied), or reject (the client throws).
Outcomes == {"ok", "error", "throw"}

\* The tool names declared in the registry.
AGENT_TOOLS ==
  {"generate_poa_pdf", "create_task", "trigger_ocr", "update_master_data",
   "generate_archive_request", "create_oby_draft", "draft_wsc_response",
   "generate_civil_acts_request"}

\* (mutation of DispatchNames: the switch has no case for the last tool added)
DispatchNamesWithoutCivilActs ==
  {"generate_poa_pdf", "create_task", "trigger_ocr", "update_master_data",
   "generate_archive_request", "create_oby_draft", "draft_wsc_response"}

\* The names the switch of executeSingleTool has a case for.
DispatchNames ==
  {"generate_poa_pdf", "create_task", "trigger_ocr", "update_master_data",
   "generate_archive_request", "create_oby_draft", "draft_wsc_response",
   "generate_civil_acts_request"}

\* Argument payloads the model can send: the text of toolCall.function.arguments
\* (JSONParseArguments reads the number 42 and the array [] as well: payloads only
\* the batches of SpecPayloads carry).
RawObject == "{caseId:c1,title:Collect passport,priority:high,...}"
RawArguments == {"{not json", "null", RawObject}

\* JSON.parse of an argument payload: [ok |-> FALSE] is a SyntaxError.
JSONParseArguments(raw) ==
  CASE raw = RawObject ->
         [ok |-> TRUE,
          value |-> [kind |-> "object", caseId |-> "c1", title |-> "Collect passport",
                     priority |-> "high", poaType |-> "adult", documentId |-> "d1",
                     fields |-> "fields", personType |-> "AP",
                     documentTypes |-> "documentTypes", strategy |-> "COMPLY",
                     wscLetterId |-> "w1", actType |-> "birth"]]
    [] raw = "null" -> [ok |-> TRUE, value |-> [kind |-> "null"]]
    [] raw = "42" -> [ok |-> TRUE, value |-> [kind |-> "scalar"]]
    [] raw = "[]" -> [ok |-> TRUE, value |-> [kind |-> "array"]]
    [] OTHER -> [ok |-> FALSE, value |-> [kind |-> "none"]]

\* args.f: a property read of null is a TypeError (IsNullish), of a number or an
\* array undefined.
IsNullish(args) == args.kind = "null"
Get(args, f) == IF args.kind = "object" /\ f \in DOMAIN args THEN args[f] ELSE Undef
\* a || b
OrElse(a, b) == IF a = Undef \/ a = Null \/ a = "" THEN b ELSE a

Success(msg) == [success |-> TRUE, message |-> msg]
Failure(msg) == [success |-> FALSE, message |-> msg]

\* The local state of one executeSingleTool call: where it is suspended, the
\* result variable, and create_oby_draft's existingOby.
NoRow == 0
Suspended(at, result) == [at |-> at, result |-> result, existingOby |-> NoRow]
Returned(result) == [at |-> "done", result |-> result, existingOby |-> NoRow]

EmptyDb ==
  [cases |-> {}, conversations |-> {}, messages |-> <<>>, hac_logs |-> {}, tasks |-> {},
   functions |-> {}, master_table |-> {}, oby_forms |-> {}, archive_searches |-> {}]

VARIABLES
  pc,          \* position of the request handler
  db,          \* the backend: tables and collaborator invocations
  toolCalls,   \* the batch of tool calls of the assistant turn
  tstate,      \* per tool call: the local state of its executeSingleTool
  toolResults, \* what executeToolsParallel returned
  faulted,     \* the tool calls (positions) one of whose awaited operations failed
  req,         \* the request: validation.data, and whether validation succeeded
  conv,        \* activeConversationId, isNewConversation, conversationMessages
  ai,          \* aiRequestBody as sent, and the non-streaming responseContent
  upstream,    \* the model stream: tokens in flight and records sent so far
  relay,       \* the stream relay: buffer, fullContent; all tokens read so far, and
               \* whether a read has ended inside a `data:` record
  out,         \* what the controller has enqueued, and how the stream ended
  response,    \* the HTTP response returned
  awaited      \* how each awaited backend operation of the handler resolved

toolVars == <<toolCalls, tstate, toolResults, faulted>>
streamVars == <<upstream, relay, out>>
vars == <<pc, db, toolCalls, tstate, toolResults, faulted, req, conv, ai, upstream,
          relay, out, response, awaited>>

(* --------------------------- tool executor ---------------------------- *)

\* (mutation of CaseOf: the handlers work on the case of the request)
CaseOfRequest(args) == req.caseId

\* args.caseId: the case every handler reads and writes.
CaseOf(args) == Get(args, "caseId")

\* The synchronous prefix of executeSingleTool, run inside toolCalls.map: up to
\* the first await, or to the return when nothing is awaited.
BeginTool(call) ==
  LET parsed == JSONParseArguments(call.arguments)
      args == parsed.value
      unknown == Failure("Unknown tool")
  IN
  IF ~parsed.ok THEN Returned(Failure("SyntaxError: not valid JSON"))
  ELSE IF call.name \notin DispatchNames THEN Returned(unknown)
  ELSE IF IsNullish(args) THEN Returned(Failure("Failed: TypeError: args is null"))
  ELSE CASE call.name = "generate_poa_pdf" -> Suspended("invoke", unknown)
         [] call.name = "create_task" -> Suspended("insert", unknown)
         [] call.name = "trigger_ocr" -> Suspended("invoke", unknown)
         [] call.name = "update_master_data" -> Suspended("update", unknown)
         [] call.name = "generate_archive_request" -> Suspended("insert", unknown)
         [] call.name = "create_oby_draft" -> Suspended("selectMaster", unknown)
         [] call.name = "draft_wsc_response" ->
              IF Get(args, "strategy") = Undef
              THEN Returned(Failure("Failed: TypeError: strategy is undefined"))
              ELSE Suspended("log", unknown)
         [] call.name = "generate_civil_acts_request" -> Suspended("insert", unknown)

\* The audit row a tool handler inserts.  `by` is not a column: it records the
\* tool call (its position in the batch) that wrote the row, 0 for the request
\* handler itself; 'oby_forms' uses it as the generated row id.
ToolLog(args, i, actionType) ==
  [case_id |-> CaseOf(args), action_type |-> actionType, by |-> i]

Insert(d, table, row) == [d EXCEPT ![table] = @ \cup {row}]
\* .update(...).eq('case_id', c) on master_table / .eq('id', id) on oby_forms
Touch(d, table, key, val, i) ==
  [d EXCEPT ![table] =
     {IF r[key] = val THEN [r EXCEPT !.updatedBy = @ \cup {i}] ELSE r : r \in @}]
Matching(d, table, key, val) == {r \in d[table] : r[key] = val}
\* .single() / .maybeSingle(): data is the row when exactly one matches, else null
\* ([found |-> FALSE] stands for null).
One(rows) ==
  IF Cardinality(rows) = 1 THEN [found |-> TRUE, row |-> CHOOSE r \in rows : TRUE]
  ELSE [found |-> FALSE]
IsRow(r) == r.found

\* The rows the handlers insert.
\* (mutation of TaskRow: the task is inserted as 'open', with no defaults)
TaskRowOpenNoDefaults(args, i) ==
  [case_id |-> CaseOf(args), title |-> Get(args, "title"),
   description |-> Get(args, "description"),
   priority |-> Get(args, "priority"),
   category |-> Get(args, "category"),
   due_date |-> Get(args, "dueDate"),
   status |-> "open", by |-> i]

TaskRow(args, i) ==
  [case_id |-> CaseOf(args), title |-> Get(args, "title"),
   description |-> OrElse(Get(args, "description"), ""),
   priority |-> Get(args, "priority"),
   category |-> OrElse(Get(args, "category"), "general"),
   due_date |-> OrElse(Get(args, "dueDate"), Null),
   status |-> "pending", by |-> i]
TaskCreated(args) ==
  [success |-> TRUE, message |-> "Task created", title |-> Get(args, "title")]
ArchiveRow(args, i) ==
  [case_id |-> CaseOf(args), person_type |-> Get(args, "personType"),
   archive_name |-> OrElse(Get(args, "archiveLocation"), "To be determined"),
   search_type |-> "international", status |-> "pending", priority |-> "medium",
   by |-> i]
CivilActsTaskRow(args, i) ==
  [case_id |-> CaseOf(args), title |-> "Submit Polish certificate application",
   description |-> "AI-generated task", priority |-> "high", category |-> "civil_acts",
   due_date |-> Undef, status |-> "pending", by |-> i]

ThrownInHandler == Failure("Failed: request rejected")

\* The last step of most handlers: await hac_logs.insert(...), then break.
AwaitLog(st, outcome, d, row) ==
  CASE outcome = "ok" -> [st |-> Returned(st.result), db |-> Insert(d, "hac_logs", row)]
    [] outcome = "error" -> [st |-> Returned(st.result), db |-> d]
    [] outcome = "throw" -> [st |-> Returned(ThrownInHandler), db |-> d]

\* (mutation of ObyWrite: the draft is always inserted)
ObyWriteAlwaysInsert(existingOby) == "insertOby"

\* create_oby_draft: if (existingOby) update ... else insert ...
ObyWrite(existingOby) == IF IsRow(existingOby) THEN "updateOby" ELSE "insertOby"

\* executeSingleTool resumed when the operation it awaits resolves with `outcome`:
\* the handler runs to its next await or to its return.
ResumeTool(call, st, outcome, i, d) ==
  LET args == JSONParseArguments(call.arguments).value
      caseId == CaseOf(args)
      thrown == [st |-> Returned(ThrownInHandler), db |-> d]
  IN
  CASE call.name = "generate_poa_pdf" /\ st.at = "invoke" ->
         (CASE outcome = "ok" ->
                 [st |-> Suspended("log", Success("POA generated")),
                  db |-> Insert(d, "functions",
                                [fn |-> "generate-poa", caseId |-> caseId, by |-> i])]
            [] outcome = "error" -> [st |-> Returned(Failure("Failed: pdfError")), db |-> d]
            [] outcome = "throw" -> thrown)
    [] call.name = "generate_poa_pdf" /\ st.at = "log" ->
         AwaitLog(st, outcome, d, ToolLog(args, i, "poa_generated"))
    [] call.name = "create_task" /\ st.at = "insert" ->
         (CASE outcome = "ok" ->
                 [st |-> Returned(TaskCreated(args)), db |-> Insert(d, "tasks", TaskRow(args, i))]
            [] outcome = "error" -> [st |-> Returned(TaskCreated(args)), db |-> d]
            [] outcome = "throw" -> thrown)
    [] call.name = "trigger_ocr" /\ st.at = "invoke" ->
         (CASE outcome = "ok" ->
                 [st |-> Returned(Success("OCR triggered")),
                  db |-> Insert(d, "functions",
                                [fn |-> "ocr-document", caseId |-> Get(args, "documentId"),
                                 by |-> i])]
            [] outcome = "error" -> [st |-> Returned(Success("OCR triggered")), db |-> d]
            [] outcome = "throw" -> thrown)
    [] call.name = "update_master_data" /\ st.at = "update" ->
         LET updated == IF outcome = "ok"
                        THEN Touch(d, "master_table", "case_id", caseId, i) ELSE d
         IN IF outcome = "throw" THEN thrown
            ELSE IF Get(args, "fields") = Undef
            THEN \* Object.keys(undefined) throws after the update was sent
                 [st |-> Returned(Failure("Failed: TypeError: Object.keys")), db |-> updated]
            ELSE [st |-> Suspended("log", Success("Updated fields")), db |-> updated]
    [] call.name = "update_master_data" /\ st.at = "log" ->
         AwaitLog(st, outcome, d, ToolLog(args, i, "master_data_updated"))
    [] call.name = "generate_archive_request" /\ st.at = "insert" ->
         LET searched == IF outcome = "ok"
                         THEN Insert(d, "archive_searches", ArchiveRow(args, i)) ELSE d
         IN IF outcome = "throw" THEN thrown
            ELSE IF Get(args, "documentTypes") = Undef
            THEN [st |-> Returned(Failure("Failed: TypeError: join")), db |-> searched]
            ELSE [st |-> Suspended("log", Success("Archive request created")),
                  db |-> searched]
    [] call.name = "generate_archive_request" /\ st.at = "log" ->
         AwaitLog(st, outcome, d, ToolLog(args, i, "archive_request_created"))
    [] call.name = "create_oby_draft" /\ st.at = "selectMaster" ->
         LET masterData == IF outcome = "ok"
                           THEN One(Matching(d, "master_table", "case_id", caseId))
                           ELSE [found |-> FALSE]
         IN IF outcome = "throw" THEN thrown
            ELSE IF ~IsRow(masterData)
            THEN [st |-> Returned(Failure("Failed: Master data not found")), db |-> d]
            ELSE [st |-> Suspended("selectOby", st.result), db |-> d]
    [] call.name = "create_oby_draft" /\ st.at = "selectOby" ->
         LET existingOby == IF outcome = "ok"
                            THEN One(Matching(d, "oby_forms", "case_id", caseId))
                            ELSE [found |-> FALSE]
         IN IF outcome = "throw" THEN thrown
            ELSE [st |-> [at |-> ObyWrite(existingOby),
                          result |-> st.result,
                          existingOby |-> IF IsRow(existingOby) THEN existingOby.row.id
                                          ELSE NoRow],
                  db |-> d]
    [] call.name = "create_oby_draft" /\ st.at = "updateOby" ->
         IF outcome = "throw" THEN thrown
         ELSE [st |-> Suspended("log", Success("OBY draft updated")),
               db |-> IF outcome = "ok"
                      THEN Touch(d, "oby_forms", "id", st.existingOby, i) ELSE d]
    [] call.name = "create_oby_draft" /\ st.at = "insertOby" ->
         IF outcome = "throw" THEN thrown
         ELSE [st |-> Suspended("log", Success("OBY draft created")),
               db |-> IF outcome = "ok"
                      THEN Insert(d, "oby_forms",
                                  [id |-> i, case_id |-> caseId, status |-> "draft",
                                   hac_approved |-> FALSE, updatedBy |-> {}])
                      ELSE d]
    [] call.name = "create_oby_draft" /\ st.at = "log" ->
         AwaitLog(st, outcome, d, ToolLog(args, i, "oby_draft_created"))
    [] call.name = "draft_wsc_response" /\ st.at = "log" ->
         LET logged == IF outcome = "ok"
                       THEN Insert(d, "hac_logs", ToolLog(args, i, "wsc_response"))
                       ELSE d
             drafted == Success("WSC response strategy drafted")
         IN IF outcome = "throw" THEN thrown
            ELSE IF Get(args, "wscLetterId") # Undef
            THEN [st |-> Suspended("updateMaster", drafted), db |-> logged]
            ELSE [st |-> Returned(drafted), db |-> logged]
    [] call.name = "draft_wsc_response" /\ st.at = "updateMaster" ->
         (CASE outcome = "ok" ->
                 [st |-> Returned(st.result),
                  db |-> Touch(d, "master_table", "case_id", caseId, i)]
            [] outcome = "error" -> [st |-> Returned(st.result), db |-> d]
            [] outcome = "throw" -> thrown)
    [] call.name = "generate_civil_acts_request" /\ st.at = "insert" ->
         IF outcome = "throw" THEN thrown
         ELSE [st |-> Suspended("log", Success("Civil acts request created")),
               db |-> IF outcome = "ok" THEN Insert(d, "tasks", CivilActsTaskRow(args, i))
                      ELSE d]
    [] call.name = "generate_civil_acts_request" /\ st.at = "log" ->
         AwaitLog(st, outcome, d, ToolLog(args, i, "civil_acts_request"))

\* (mutation of ToolResult: the outer catch returns the bare failure, untagged)
ToolResultUntaggedOnError(call, result) ==
  IF result.success
  THEN [tool_call_id |-> call.id, name |-> call.name, result |-> result]
  ELSE [tool_call_id |-> Undef, name |-> Undef, result |-> result]

\* What executeSingleTool returns: the result tagged with the call's id and name.
ToolResult(call, result) ==
  [tool_call_id |-> call.id, name |-> call.name, result |-> result]

\* What Promise.all resolves to: the value of promise i at position i.
PromiseAllValues(calls, states) ==
  [i \in 1..Len(calls) |-> ToolResult(calls[i], states[i].result)]

\* (mutation of MapTools: JSON.parse outside the try, so the first malformed
\* payload throws out of the map and the calls after it are never started)
MapToolsAbortOnParseError(calls) ==
  [i \in 1..Len(calls) |->
     IF \E j \in 1..i : ~JSONParseArguments(calls[j].arguments).ok
     THEN Returned(Failure("SyntaxError: not valid JSON"))
     ELSE BeginTool(calls[i])]

\* toolCalls.map(toolCall => executeSingleTool(...)): every call is started, in
\* order, each running to its first await.
MapTools(calls) == [i \in 1..Len(calls) |-> BeginTool(calls[i])]

\* executeToolsParallel: toolCalls.map(executeSingleTool) starts every call.
executeToolsParallel ==
  /\ pc = "execTools"
  /\ tstate' = MapTools(toolCalls)
  /\ pc' = "awaitTools"
  /\ UNCHANGED <<db, toolCalls, toolResults, faulted, req, conv, ai, streamVars, response, awaited>>

\* One pending call is resumed by the resolution of the operation it awaits.
executeSingleTool(i) ==
  /\ pc = "awaitTools"
  /\ tstate[i].at # "done"
  /\ \E outcome \in Outcomes :
       LET r == ResumeTool(toolCalls[i], tstate[i], outcome, i, db) IN
         /\ tstate' = [tstate EXCEPT ![i] = r.st]
         /\ db' = r.db
         /\ faulted' = IF outcome = "ok" THEN faulted ELSE faulted \cup {i}
  /\ UNCHANGED <<pc, toolCalls, toolResults, req, conv, ai, streamVars, response, awaited>>

\* (mutation of PromiseAll: the batch resolves with the first call that returns)
PromiseAny ==
  /\ pc = "awaitTools"
  /\ \E i \in 1..Len(toolCalls) : tstate[i].at = "done"
  /\ toolResults' = PromiseAllValues(toolCalls, tstate)
  /\ pc' = "afterTools"
  /\ UNCHANGED <<db, toolCalls, tstate, faulted, req, conv, ai, streamVars, response, awaited>>

\* await Promise.all(...): resolves once every call has returned.
PromiseAll ==
  /\ pc = "awaitTools"
  /\ \A i \in 1..Len(toolCalls) : tstate[i].at = "done"
  /\ toolResults' = PromiseAllValues(toolCalls, tstate)
  /\ pc' = "afterTools"
  /\ UNCHANGED <<db, toolCalls, tstate, faulted, req, conv, ai, streamVars, response, awaited>>

(* ---------------------------- stream relay ---------------------------- *)

\* The upstream text is a sequence of tokens, each a fixed piece of text:
\*   "NL" a newline, "CR" a carriage return (whitespace), ":" a colon,
\*   "data: " the six characters of the SSE field prefix, "[DONE]" the sentinel,
\*   "{delta:" the text {"choices":[{"delta":{ and "}" its closing }}]},
\*   "content:a", "content:b", "content:" a "content" member with the value a, b
\*   or the empty string, "tool_calls:task", "tool_calls:bad" a "tool_calls"
\*   member, "tool_calls:head", "tool_calls:tail" a "tool_calls" member with the
\*   first and the second fragment of one call (the same index, the argument text
\*   cut in two), "null" the JSON text null, "event: x" any other text.
Whitespace == {"CR"}
Members ==
  {"content:a", "content:b", "content:", "tool_calls:task", "tool_calls:bad",
   "tool_calls:head", "tool_calls:tail"}

\* buffer.split('\n')
RECURSIVE Split(_)
Split(text) ==
  IF \A k \in 1..Len(text) : text[k] # "NL" THEN <<text>>
  ELSE LET k == CHOOSE n \in 1..Len(text) :
                  text[n] = "NL" /\ \A m \in 1..(n - 1) : text[m] # "NL"
       IN <<SubSeq(text, 1, k - 1)>> \o Split(SubSeq(text, k + 1, Len(text)))

\* String.prototype.trim
RECURSIVE Trim(_)
Trim(text) ==
  IF text = <<>> THEN text
  ELSE IF Head(text) \in Whitespace THEN Trim(Tail(text))
  ELSE IF text[Len(text)] \in Whitespace THEN Trim(SubSeq(text, 1, Len(text) - 1))
  ELSE text

\* JSON.parse(data): whitespace between tokens is skipped; an object is the
\* opening text, members, the closing text; anything else but null is a SyntaxError.
JSONParse(data) ==
  LET body == SelectSeq(data, LAMBDA t : t \notin Whitespace) IN
  IF body = <<"null">> THEN [ok |-> TRUE, null |-> TRUE, members |-> <<>>]
  ELSE IF /\ Len(body) >= 2
          /\ body[1] = "{delta:"
          /\ body[Len(body)] = "}"
          /\ \A k \in 2..(Len(body) - 1) : body[k] \in Members
  THEN [ok |-> TRUE, null |-> FALSE, members |-> SubSeq(body, 2, Len(body) - 1)]
  ELSE [ok |-> FALSE, null |-> FALSE, members |-> <<>>]

\* delta.content and delta.tool_calls of a parsed object: the last member of a
\* name is its value, <<>> when there is none ("" and undefined are both falsy).
ContentOf(members) ==
  LET cs == SelectSeq(members, LAMBDA m : m \in {"content:a", "content:b", "content:"})
      last == IF cs = <<>> THEN "content:" ELSE cs[Len(cs)]
  IN CASE last = "content:a" -> <<"a">>
       [] last = "content:b" -> <<"b">>
       [] OTHER -> <<>>
ToolCallsOf(members) ==
  LET ts == SelectSeq(members, LAMBDA m : m \in {"tool_calls:task", "tool_calls:bad",
                                                 "tool_calls:head", "tool_calls:tail"})
      last == IF ts = <<>> THEN "none" ELSE ts[Len(ts)]
  IN CASE last = "tool_calls:task" ->
            <<[id |-> "call_1", name |-> "create_task", arguments |-> RawObject]>>
       [] last = "tool_calls:bad" ->
            <<[id |-> "call_2", name |-> "trigger_ocr", arguments |-> "{not json"]>>
       [] last = "tool_calls:head" ->
            <<[id |-> "call_3", name |-> "create_task", arguments |-> "{caseId:c1,"]>>
       [] last = "tool_calls:tail" ->
            <<[id |-> Undef, name |-> Undef,
               arguments |-> "title:Collect passport,priority:high,...}"]>>
       [] OTHER -> <<>>

DeltaEvent(content) == [type |-> "delta", data |-> content]

\* The state the read loop carries: the decode buffer, fullContent, toolCalls, and
\* the events enqueued on the controller while processing.
NewRelay == [buffer |-> <<>>, fullContent |-> <<>>, toolCalls |-> <<>>, enqueued |-> <<>>]

\* (mutation of PushToolCalls: a fragment with no id continues the call before
\* it, its argument text joined to that call's)
MergeToolCalls(calls, fragments) ==
  IF calls # <<>> /\ fragments # <<>> /\ fragments[1].id = Undef
  THEN [calls EXCEPT ![Len(calls)].arguments = RawObject]
  ELSE calls \o fragments

\* toolCalls.push(...delta.tool_calls)
PushToolCalls(calls, fragments) == calls \o fragments

\* The body of `for (const line of lines)`.
ProcessLine(rs, line) ==
  IF Trim(line) = <<>> \/ Head(line) = ":" THEN rs
  ELSE IF Head(line) # "data: " THEN rs
  ELSE LET data == Trim(Tail(line)) IN
       IF data = <<"[DONE]">> THEN rs
       ELSE LET parsed == JSONParse(data) IN
            \* a SyntaxError, or the TypeError of null.choices: caught, line skipped
            IF ~parsed.ok \/ parsed.null THEN rs
            ELSE LET content == ContentOf(parsed.members) IN
                 [rs EXCEPT !.fullContent = @ \o content,
                            !.enqueued = IF content = <<>> THEN @
                                         ELSE Append(@, DeltaEvent(content)),
                            !.toolCalls = PushToolCalls(@, ToolCallsOf(parsed.members))]

\* (mutation of ProcessLines: one try around the whole loop, so a payload that
\* fails to parse abandons the lines after it)
RECURSIVE ProcessLinesOneTry(_, _)
ProcessLinesOneTry(rs, lines) ==
  IF lines = <<>> THEN rs
  ELSE IF /\ Trim(Head(lines)) # <<>>
          /\ Head(Head(lines)) = "data: "
          /\ Trim(Tail(Head(lines))) # <<"[DONE]">>
          /\ ~JSONParse(Trim(Tail(Head(lines)))).ok
  THEN rs
  ELSE ProcessLinesOneTry(ProcessLine(rs, Head(lines)), Tail(lines))

\* for (const line of lines) { ... }
RECURSIVE ProcessLines(_, _)
ProcessLines(rs, lines) ==
  IF lines = <<>> THEN rs
  ELSE ProcessLines(ProcessLine(rs, Head(lines)), Tail(lines))

\* (mutation of Residue: the buffer is cleared after each chunk)
ResidueDropped(lines) == <<>>

\* buffer = lines.pop() || ''
Residue(lines) == lines[Len(lines)]

\* One turn of the read loop on a chunk: decode, append to the buffer, split,
\* hold back the last piece, process the others.
ProcessChunk(rs, chunk) ==
  LET lines == Split(rs.buffer \o chunk) IN
  ProcessLines([rs EXCEPT !.buffer = Residue(lines)], SubSeq(lines, 1, Len(lines) - 1))

(* --------------------------- request handler -------------------------- *)

\* (mutation of toolEnabledActions: security_audit is given the tools as well)
toolEnabledActionsWithAudit ==
  {"researcher", "comprehensive", "document_intelligence", "auto_populate_forms",
   "task_suggest", "security_audit"}

toolEnabledActions ==
  {"researcher", "comprehensive", "document_intelligence", "auto_populate_forms",
   "task_suggest"}

\* (mutation of ErrorResponse: every error is answered as a server error)
ErrorResponseServerError(status) ==
  [status |-> 500, conversationId |-> Undef, toolResults |-> <<>>]

\* createSecureErrorResponse(req, message, status)
ErrorResponse(status) ==
  [status |-> status, conversationId |-> Undef, toolResults |-> <<>>]

\* (mutation of Throw500: the exception is swallowed and the handler goes on to
\* the model call)
ThrowSwallowed ==
  /\ pc' = "fetchModel"
  /\ response' = response

\* The catch of the serve handler: any exception becomes a 500 response.
Throw500 ==
  /\ pc' = "error500"
  /\ response' = ErrorResponse(500)

\* validateInput(AIAgentRequestSchema, body); 400 when it fails.
Validate ==
  /\ pc = "validate"
  /\ IF req.valid
     THEN pc' = "conversation" /\ UNCHANGED response
     ELSE pc' = "rejected400" /\ response' = ErrorResponse(400)
  /\ UNCHANGED <<db, toolVars, req, conv, ai, streamVars, awaited>>

NewConversationId == "conv_new"

\* newConv.id of `.insert({...}).select().single()`: the id the store gives the
\* inserted row, NewConversationId for the first row inserted and a further new
\* id for each one after it.
GeneratedId(d) ==
  LET n == Cardinality({c \in d.conversations : c.id \notin {"conv_1", "conv_other"}})
  IN IF n = 0 THEN NewConversationId ELSE NewConversationId \o "_" \o ToString(n + 1)

\* (mutation of NeedsNewConversation: no conversation is created by the handler)
NeedsNewConversationNever(r) == FALSE

\* if (!activeConversationId && caseId)
NeedsNewConversation(r) == r.conversationId = Undef /\ r.caseId # Undef

\* Get or create conversation.
GetOrCreateConversation ==
  /\ pc = "conversation"
  /\ IF NeedsNewConversation(req)
     THEN \E outcome \in Outcomes :
            /\ awaited' = [awaited EXCEPT !.conversation = outcome]
            /\ (CASE outcome = "ok" ->
                       /\ db' = Insert(db, "conversations",
                                       [id |-> GeneratedId(db), case_id |-> req.caseId,
                                        agent_type |-> req.action])
                       /\ conv' = [conv EXCEPT !.active = GeneratedId(db), !.isNew = TRUE]
                       /\ pc' = "history"
                       /\ UNCHANGED response
                  [] outcome = "error" ->
                       \* newConv is null: activeConversationId = newConv?.id is undefined
                       /\ conv' = [conv EXCEPT !.active = Undef, !.isNew = TRUE]
                       /\ pc' = "history"
                       /\ UNCHANGED <<db, response>>
                  [] outcome = "throw" -> Throw500 /\ UNCHANGED <<db, conv>>)
     ELSE /\ conv' = [conv EXCEPT !.active = req.conversationId]
          /\ pc' = "history"
          /\ UNCHANGED <<db, response, awaited>>
  /\ UNCHANGED <<toolVars, req, ai, streamVars>>

\* .eq('conversation_id', id).order('created_at', {ascending: true}).limit(20)
HistoryOf(messages, id) ==
  LET mine == SelectSeq(messages, LAMBDA m : m.conversation_id = id) IN
  SubSeq(mine, 1, IF Len(mine) < HistoryLimit THEN Len(mine) ELSE HistoryLimit)

\* Fetch conversation history.
FetchHistory ==
  /\ pc = "history"
  /\ IF conv.active # Undef
     THEN \E outcome \in Outcomes :
            /\ awaited' = [awaited EXCEPT !.history = outcome]
            /\ (CASE outcome = "ok" ->
                       /\ conv' = [conv EXCEPT !.history = HistoryOf(db.messages, conv.active)]
                       /\ pc' = "fetchCase"
                       /\ UNCHANGED response
                  [] outcome = "error" ->
                       /\ conv' = [conv EXCEPT !.history = <<>>]
                       /\ pc' = "fetchCase"
                       /\ UNCHANGED response
                  [] outcome = "throw" -> Throw500 /\ UNCHANGED conv)
     ELSE pc' = "fetchCase" /\ UNCHANGED <<conv, response, awaited>>
  /\ UNCHANGED <<db, toolVars, req, ai, streamVars>>

\* (mutation of buildAgentContext: the case is required for every action)
buildAgentContextNeedsCase(caseFound, action) ==
  IF ~caseFound THEN "Error: Case data required" ELSE "case"

\* buildAgentContext(caseData, action), as far as the handler depends on it.
buildAgentContext(caseFound, action) ==
  IF action = "security_audit" THEN "audit"
  ELSE IF ~caseFound THEN "Error: Case data required"
  ELSE "case"

\* Fetch case data.
FetchCase ==
  /\ pc = "fetchCase"
  /\ IF req.action = "security_audit"
     THEN /\ ai' = [ai EXCEPT !.context = buildAgentContext(FALSE, req.action)]
          /\ pc' = "fetchModel"
          /\ UNCHANGED <<response, awaited>>
     ELSE IF req.caseId # Undef
     THEN \E outcome \in Outcomes :
            /\ awaited' = [awaited EXCEPT !.case = outcome]
            /\ IF outcome = "ok" /\ Cardinality(Matching(db, "cases", "id", req.caseId)) = 1
               THEN /\ ai' = [ai EXCEPT !.context = buildAgentContext(TRUE, req.action)]
                    /\ pc' = "fetchModel"
                    /\ UNCHANGED response
               ELSE \* caseError, or the client throws
                    Throw500 /\ UNCHANGED ai
     ELSE pc' = "fetchModel" /\ UNCHANGED <<ai, response, awaited>>
  /\ UNCHANGED <<db, toolVars, req, conv, streamVars>>

\* aiRequestBody: tools and tool_choice only for the tool-enabled actions.
AiRequestBody(r) ==
  [stream |-> r.stream, tools |-> r.action \in toolEnabledActions,
   tool_choice |-> IF r.action \in toolEnabledActions THEN "auto" ELSE Undef]

\* The events the controller enqueues.
ConversationEvent(id) == [type |-> "conversationId", data |-> <<id>>]
ToolResultsEvent(results) == [type |-> "toolResults", data |-> results]
DoneEvent == [type |-> "[DONE]", data |-> <<>>]

\* (mutation of StartEvents: the id is announced for every conversation)
StartEventsAlways(c) == IF c.active # Undef THEN <<ConversationEvent(c.active)>> ELSE <<>>

\* start(controller), up to the first reader.read(): send conversationId
\* immediately if it's a new conversation.
StartEvents(c) ==
  IF c.isNew /\ c.active # Undef THEN <<ConversationEvent(c.active)>> ELSE <<>>

\* new Response(streamResponse, {headers: ... 'text/event-stream'})
StreamResponse == [status |-> 200, conversationId |-> Undef, toolResults |-> <<>>]

\* fetch(...chat/completions) with stream: true; then the ReadableStream starts.
FetchModelStreaming ==
  /\ pc = "fetchModel"
  /\ req.stream
  /\ \E outcome \in Outcomes :
       /\ awaited' = [awaited EXCEPT !.model = outcome]
       /\ ai' = [ai EXCEPT !.request = AiRequestBody(req)]
       /\ IF outcome = "ok"
          THEN /\ pc' = "reading"
               /\ out' = [events |-> StartEvents(conv), state |-> "open"]
               /\ response' = StreamResponse
          ELSE \* !aiResponse.ok, or fetch rejects
               Throw500 /\ UNCHANGED out
  /\ UNCHANGED <<db, toolVars, req, conv, upstream, relay>>

\* The model service writes one more record (or part of one) to the stream.
UpstreamSend(text) ==
  /\ pc = "reading"
  /\ upstream.sent < MaxLines
  /\ upstream' = [wire |-> upstream.wire \o text, sent |-> upstream.sent + 1]
  /\ UNCHANGED <<pc, db, toolVars, req, conv, ai, relay, out, response, awaited>>

\* reader.read() resolves with the next n tokens: one turn of the read loop.
ReadChunk(n) ==
  /\ pc = "reading"
  /\ n \in 1..Len(upstream.wire)
  /\ LET chunk == SubSeq(upstream.wire, 1, n)
         rs == ProcessChunk([buffer |-> relay.buffer, fullContent |-> relay.fullContent,
                             toolCalls |-> toolCalls, enqueued |-> <<>>], chunk)
     IN /\ relay' = [buffer |-> rs.buffer, fullContent |-> rs.fullContent,
                     consumed |-> relay.consumed \o chunk,
                     split |-> relay.split \/ (rs.buffer # <<>> /\ Head(rs.buffer) = "data: ")]
        /\ toolCalls' = rs.toolCalls
        /\ out' = [out EXCEPT !.events = @ \o rs.enqueued]
  /\ upstream' = [upstream EXCEPT !.wire = SubSeq(@, n + 1, Len(@))]
  /\ UNCHANGED <<pc, db, tstate, toolResults, faulted, req, conv, ai, response, awaited>>

\* (mutation of ReadDone: what is left in the buffer is processed as a last line)
ReadDoneFlushesBuffer ==
  /\ pc = "reading"
  /\ upstream.wire = <<>>
  /\ LET rs == ProcessLine([buffer |-> <<>>, fullContent |-> relay.fullContent,
                            toolCalls |-> toolCalls, enqueued |-> <<>>], relay.buffer)
     IN /\ relay' = [relay EXCEPT !.fullContent = rs.fullContent]
        /\ toolCalls' = rs.toolCalls
        /\ out' = [out EXCEPT !.events = @ \o rs.enqueued]
  /\ pc' = "saveMessages"
  /\ UNCHANGED <<db, tstate, toolResults, faulted, req, conv, ai, upstream, response, awaited>>

\* reader.read() resolves with done: the loop breaks.
ReadDone ==
  /\ pc = "reading"
  /\ upstream.wire = <<>>
  /\ pc' = "saveMessages"
  /\ UNCHANGED <<db, toolVars, req, conv, ai, streamVars, response, awaited>>

\* (mutation of ControllerError: the catch ends the stream as a normal one)
ControllerCloseOnError ==
  /\ pc' = "errored"
  /\ out' = [events |-> Append(out.events, DoneEvent), state |-> "closed"]

\* catch (error) { controller.error(error) }
ControllerError ==
  /\ pc' = "errored"
  /\ out' = [out EXCEPT !.state = "errored"]

\* reader.read() rejects.
ReadError ==
  /\ pc = "reading"
  /\ ControllerError
  /\ UNCHANGED <<db, toolVars, req, conv, ai, upstream, relay, response, awaited>>

Text(t) == [null |-> FALSE, text |-> t]
NullContent == [null |-> TRUE, text |-> <<>>]

\* The completions the model service can answer with (non-streaming).
OneCall == <<[id |-> "call_1", name |-> "create_task", arguments |-> RawObject]>>
TwoCalls ==
  <<[id |-> "call_1", name |-> "trigger_ocr", arguments |-> "{not json"],
    [id |-> "call_2", name |-> "create_task", arguments |-> RawObject]>>
LongText == [i \in 1..(PreviewLength + 1) |-> "x"]
Completions ==
  [content : {NullContent, Text(<<"a", "b">>), Text(LongText)},
   tool_calls : {<<>>, OneCall, TwoCalls}]

\* fetch(...chat/completions) without streaming, and `await aiResponse.json()`.
FetchModel ==
  /\ pc = "fetchModel"
  /\ ~req.stream
  /\ \E outcome \in Outcomes :
       /\ awaited' = [awaited EXCEPT !.model = outcome]
       /\ IF outcome = "ok"
          THEN \E data \in Completions :
                 /\ pc' = "saveMessages"
                 /\ ai' = [ai EXCEPT !.request = AiRequestBody(req),
                                     !.responseContent = data.content]
                 /\ toolCalls' = data.tool_calls
                 /\ UNCHANGED response
          ELSE /\ Throw500
               /\ ai' = [ai EXCEPT !.request = AiRequestBody(req)]
               /\ UNCHANGED toolCalls
  /\ UNCHANGED <<db, tstate, toolResults, faulted, req, conv, streamVars>>

\* (mutation of AssistantContent: the streaming path saves responseContent too)
AssistantContentOfCompletion == ai.responseContent

\* The content saved as the assistant message: fullContent when streaming.
AssistantContent == IF req.stream THEN Text(relay.fullContent) ELSE ai.responseContent

\* (mutation of MessageRows: only the reply is saved)
MessageRowsAssistantOnly(id, prompt, content, calls) ==
  <<[conversation_id |-> id, role |-> "assistant", content |-> content,
     tool_calls |-> calls]>>

\* (mutation of MessageRows: the reply is put before the prompt)
MessageRowsReplyFirst(id, prompt, content, calls) ==
  <<[conversation_id |-> id, role |-> "assistant", content |-> content,
     tool_calls |-> calls],
    [conversation_id |-> id, role |-> "user", content |-> Text(prompt), tool_calls |-> <<>>]>>

\* The two rows of the batch insert into ai_conversation_messages (tool_calls:
\* the empty list stands for null as well).
MessageRows(id, prompt, content, calls) ==
  <<[conversation_id |-> id, role |-> "user", content |-> Text(prompt), tool_calls |-> <<>>],
    [conversation_id |-> id, role |-> "assistant", content |-> content,
     tool_calls |-> calls]>>

\* The message store takes the rows of one insert together and stamps them in the
\* order given, after all earlier rows (append-only, timestamp-monotonic):
\* db.messages is the table in ascending created_at.
StoreAppend(messages, rows) == messages \o rows

\* (mutation of ToolsWanted: the tools run whenever there are tool calls)
ToolsWantedWithoutCase == Len(toolCalls) > 0

\* if (toolCalls.length > 0 && caseId)
ToolsWanted == Len(toolCalls) > 0 /\ req.caseId # Undef

\* Save messages; then on to the tools, or past them.
SaveMessages ==
  /\ pc = "saveMessages"
  /\ IF conv.active # Undef
     THEN \E outcome \in Outcomes :
            /\ awaited' = [awaited EXCEPT !.save = outcome]
            /\ (CASE outcome = "ok" ->
                       /\ db' = [db EXCEPT !.messages =
                                   StoreAppend(@, MessageRows(conv.active, req.prompt,
                                                              AssistantContent, toolCalls))]
                       /\ pc' = IF ToolsWanted THEN "execTools" ELSE "afterTools"
                       /\ UNCHANGED <<out, response>>
                  [] outcome = "error" ->
                       /\ pc' = IF ToolsWanted THEN "execTools" ELSE "afterTools"
                       /\ UNCHANGED <<db, out, response>>
                  [] outcome = "throw" ->
                       /\ IF req.stream THEN ControllerError /\ UNCHANGED response
                          ELSE Throw500 /\ UNCHANGED out
                       /\ UNCHANGED db)
     ELSE /\ pc' = IF ToolsWanted THEN "execTools" ELSE "afterTools"
          /\ UNCHANGED <<db, out, response, awaited>>
  /\ UNCHANGED <<toolVars, req, conv, ai, upstream, relay>>

\* (mutation of FinalEvents: the tool results are sent after the sentinel)
FinalEventsResultsLast(wanted, results) ==
  IF wanted THEN <<DoneEvent, ToolResultsEvent(results)>> ELSE <<DoneEvent>>

\* What the stream enqueues after the tools: the results, if tools ran, and [DONE].
FinalEvents(wanted, results) ==
  IF wanted THEN <<ToolResultsEvent(results), DoneEvent>> ELSE <<DoneEvent>>

\* Streaming: enqueue the tool results, then [DONE], and close.
StreamFinish ==
  /\ pc = "afterTools"
  /\ req.stream
  /\ out' = [events |-> out.events \o FinalEvents(ToolsWanted, toolResults),
             state |-> "closed"]
  /\ pc' = "closed"
  /\ UNCHANGED <<db, toolVars, req, conv, ai, upstream, relay, response, awaited>>

Prefix(text, n) == SubSeq(text, 1, IF Len(text) < n THEN Len(text) ELSE n)

\* (mutation of SubstringThrows: a null content is previewed as the empty text)
SubstringNeverThrows(content) == FALSE

\* responseContent.substring(0, 500) on a content that is null: a TypeError.
SubstringThrows(content) == content.null

\* The request-level audit row.
InteractionLog(r, c, content, calls) ==
  [case_id |-> r.caseId, action_type |-> "ai_agent", action |-> r.action, by |-> 0,
   response_preview |-> Prefix(content.text, PreviewLength),
   conversation_id |-> c.active, tools_used |-> Len(calls)]

\* Non-streaming: log the interaction (if a case is associated), then respond.
LogInteraction ==
  /\ pc = "afterTools"
  /\ ~req.stream
  /\ LET ok200 == [status |-> 200, conversationId |-> conv.active,
                   toolResults |-> IF ToolsWanted THEN toolResults ELSE <<>>]
     IN IF req.caseId # Undef
        THEN IF SubstringThrows(ai.responseContent)
             THEN \* responseContent.substring throws a TypeError
                  Throw500 /\ UNCHANGED <<db, awaited>>
             ELSE \E outcome \in Outcomes :
                    /\ awaited' = [awaited EXCEPT !.log = outcome]
                    /\ (CASE outcome = "ok" ->
                               /\ db' = Insert(db, "hac_logs",
                                               InteractionLog(req, conv, ai.responseContent,
                                                              toolCalls))
                               /\ pc' = "responded"
                               /\ response' = ok200
                          [] outcome = "error" ->
                               pc' = "responded" /\ response' = ok200 /\ UNCHANGED db
                          [] outcome = "throw" -> Throw500 /\ UNCHANGED db)
        ELSE pc' = "responded" /\ response' = ok200 /\ UNCHANGED <<db, awaited>>
  /\ UNCHANGED <<toolVars, req, conv, ai, streamVars>>

(* ----------------------- the tool executor alone ---------------------- *)

ToolNames == AGENT_TOOLS \cup {"delete_case"}
CallIds == {<<"call_1", "call_2", "call_3">>}

Batches ==
  UNION {[1..n -> [name : ToolNames, arguments : RawArguments]] : n \in 1..MaxBatch}

MasterRow(c) == [id |-> "m1", case_id |-> c, updatedBy |-> {}]

\* The request the handler is serving when nothing else is said.
NoRequest ==
  [caseId |-> "c1", prompt |-> <<"p">>, action |-> "comprehensive",
   conversationId |-> Undef, stream |-> FALSE, valid |-> TRUE]
NoConversation == [active |-> Undef, isNew |-> FALSE, history |-> <<>>]
NoAi ==
  [request |-> [stream |-> FALSE, tools |-> FALSE, tool_choice |-> Undef],
   context |-> "none", responseContent |-> NullContent]
NoUpstream == [wire |-> <<>>, sent |-> 0]
NoRelay == [buffer |-> <<>>, fullContent |-> <<>>, consumed |-> <<>>, split |-> FALSE]
NothingAwaited ==
  [conversation |-> "none", history |-> "none", case |-> "none", model |-> "none",
   save |-> "none", log |-> "none"]
NoOut == [events |-> <<>>, state |-> "none"]
NoResponse == [status |-> 0, conversationId |-> Undef, toolResults |-> <<>>]

\* executeToolsParallel is entered with a batch; the master record of the case exists.
InitTools ==
  /\ pc = "execTools"
  /\ \E b \in Batches, ids \in CallIds :
       toolCalls = [i \in DOMAIN b |->
                      [id |-> ids[i], name |-> b[i].name, arguments |-> b[i].arguments]]
  /\ db = [EmptyDb EXCEPT !.master_table = {MasterRow("c1")}]
  /\ tstate = <<>>
  /\ toolResults = <<>>
  /\ faulted = {}
  /\ req = NoRequest
  /\ conv = NoConversation
  /\ ai = NoAi
  /\ upstream = NoUpstream
  /\ relay = NoRelay
  /\ out = NoOut
  /\ response = NoResponse
  /\ awaited = NothingAwaited

NextTools ==
  \/ executeToolsParallel
  \/ \E i \in 1..Len(toolCalls) : executeSingleTool(i)
  \/ PromiseAll

SpecTools == InitTools /\ [][NextTools]_vars

(* ------------------------- the stream relay alone --------------------- *)

\* What the model service may write in one go: a comment line with the blank
\* line after it, records ending in a newline, and one that does not.
RelayRecords ==
  {<<":", "NL", "NL">>,
   <<"data: ", "[DONE]", "NL">>,
   <<"data: ", "{delta:", "content:a", "}", "NL">>,
   <<"data: ", "{delta:", "content:b", "}", "CR", "NL">>,
   <<"data: ", "{delta:", "content:a", "tool_calls:task", "}", "NL">>,
   <<"data: ", "{delta:", "content:a", "NL">>,
   <<"data: ", "{delta:", "content:b", "}">>}

\* A streaming request without a case or a conversation (action security_audit),
\* at the point where start(controller) awaits its first read.
InitRelay ==
  /\ pc = "reading"
  /\ req = [NoRequest EXCEPT !.caseId = Undef, !.action = "security_audit",
                             !.stream = TRUE]
  /\ db = EmptyDb
  /\ toolCalls = <<>>
  /\ tstate = <<>>
  /\ toolResults = <<>>
  /\ faulted = {}
  /\ conv = NoConversation
  /\ ai = [NoAi EXCEPT !.request = AiRequestBody(req), !.context = "audit"]
  /\ upstream = NoUpstream
  /\ relay = NoRelay
  /\ out = [events |-> <<>>, state |-> "open"]
  /\ response = StreamResponse
  /\ awaited = [NothingAwaited EXCEPT !.model = "ok"]

NextRelay ==
  \/ \E text \in RelayRecords : UpstreamSend(text)
  \/ \E n \in 1..Len(upstream.wire) : ReadChunk(n)
  \/ ReadDone
  \/ ReadError
  \/ SaveMessages
  \/ StreamFinish

SpecRelay == InitRelay /\ [][NextRelay]_vars

(* --------------------------- the whole request ------------------------ *)

Requests ==
  [caseId : {Undef, "c1"}, prompt : {<<"p">>},
   action : {"security_audit", "researcher", "eligibility_analysis"},
   conversationId : {Undef, "conv_1"}, stream : BOOLEAN, valid : BOOLEAN]

\* The backend before the request: case c1 with its master record, and
\* conversation conv_1 of that case with one earlier turn.
InitialMessages == MessageRows("conv_1", <<"q">>, Text(<<"a">>), <<>>)
InitialDb ==
  [EmptyDb EXCEPT
     !.cases = {[id |-> "c1"]},
     !.master_table = {MasterRow("c1")},
     !.conversations = {[id |-> "conv_1", case_id |-> "c1", agent_type |-> "researcher"]},
     !.messages = InitialMessages]

\* What the model service writes in the request-level specification: a record
\* with content, and a record with content and a tool call that has the [DONE]
\* record after it.
RequestRecords ==
  {<<"data: ", "{delta:", "content:a", "}", "NL">>,
   <<"data: ", "{delta:", "content:b", "tool_calls:task", "}", "NL",
     "data: ", "[DONE]", "NL">>}

Init ==
  /\ pc = "validate"
  /\ req \in Requests
  /\ db = InitialDb
  /\ toolCalls = <<>>
  /\ tstate = <<>>
  /\ toolResults = <<>>
  /\ faulted = {}
  /\ conv = NoConversation
  /\ ai = NoAi
  /\ upstream = NoUpstream
  /\ relay = NoRelay
  /\ out = NoOut
  /\ response = NoResponse
  /\ awaited = NothingAwaited

Next ==
  \/ Validate
  \/ GetOrCreateConversation
  \/ FetchHistory
  \/ FetchCase
  \/ FetchModelStreaming
  \/ FetchModel
  \/ \E text \in RequestRecords : UpstreamSend(text)
  \/ \E n \in 1..Len(upstream.wire) : ReadChunk(n)
  \/ ReadDone
  \/ ReadError
  \/ SaveMessages
  \/ executeToolsParallel
  \/ \E i \in 1..Len(toolCalls) : executeSingleTool(i)
  \/ PromiseAll
  \/ StreamFinish
  \/ LogInteraction

Spec == Init /\ [][Next]_vars

(* ------------------- the handler up to the model call ------------------ *)

\* Most messages the store holds before the request, in SpecHistory.
MaxMessages == 27

\* A store of n earlier messages in creation order, numbered in their content;
\* every fifth belongs to another conversation, the others to conv_1.
StoredMessage(i) ==
  [conversation_id |-> IF i % 5 = 0 THEN "conv_other" ELSE "conv_1",
   role |-> IF i % 2 = 1 THEN "user" ELSE "assistant",
   content |-> Text(<<ToString(i)>>), tool_calls |-> <<>>]
StoredMessages(n) == [i \in 1..n |-> StoredMessage(i)]

InitHistory ==
  /\ pc = "validate"
  /\ req \in Requests
  /\ \E n \in 0..MaxMessages : db = [InitialDb EXCEPT !.messages = StoredMessages(n)]
  /\ toolCalls = <<>>
  /\ tstate = <<>>
  /\ toolResults = <<>>
  /\ faulted = {}
  /\ conv = NoConversation
  /\ ai = NoAi
  /\ upstream = NoUpstream
  /\ relay = NoRelay
  /\ out = NoOut
  /\ response = NoResponse
  /\ awaited = NothingAwaited

NextHistory ==
  \/ Validate
  \/ GetOrCreateConversation
  \/ FetchHistory
  \/ FetchCase

SpecHistory == InitHistory /\ [][NextHistory]_vars

(* -------------- the request beside another request's turn ------------- *)

\* Most turns other requests save while this one runs, in SpecShared.
MaxOtherTurns == 1

OtherTurn == MessageRows("conv_1", <<"o">>, Text(<<"r">>), <<>>)
OtherTurnsSaved ==
  Len(SelectSeq(db.messages, LAMBDA m : m.role = "user" /\ m.content = Text(<<"o">>)))

\* Another invocation of the handler, serving conversation conv_1, saves its turn.
OtherRequestSaves ==
  /\ OtherTurnsSaved < MaxOtherTurns
  /\ db' = [db EXCEPT !.messages = StoreAppend(@, OtherTurn)]
  /\ UNCHANGED <<pc, toolVars, req, conv, ai, streamVars, response, awaited>>

InitShared == Init /\ ~req.stream

NextShared ==
  \/ Validate
  \/ GetOrCreateConversation
  \/ FetchHistory
  \/ FetchCase
  \/ FetchModel
  \/ SaveMessages
  \/ executeToolsParallel
  \/ \E i \in 1..Len(toolCalls) : executeSingleTool(i)
  \/ PromiseAll
  \/ LogInteraction
  \/ OtherRequestSaves

SpecShared == InitShared /\ [][NextShared]_vars

(* ------------------- the tool calls one after the other ---------------- *)

\* Tool call i runs when the calls before it have returned: the schedule in
\* which the calls of the batch execute one after the other.
executeSingleToolInTurn(i) ==
  /\ pc = "awaitTools"
  /\ \A j \in 1..(i - 1) : tstate[j].at = "done"
  /\ executeSingleTool(i)

NextSerial ==
  \/ executeToolsParallel
  \/ \E i \in 1..Len(toolCalls) : executeSingleToolInTurn(i)
  \/ PromiseAll

SpecSerial == InitTools /\ [][NextSerial]_vars

(* ------------- the tool executor on every kind of payload -------------- *)

\* Longest tool-call batch in SpecPayloads.
MaxCalls == 1

\* The payloads of SpecPayloads: not JSON, null, an object, a number, an array.
Payloads == RawArguments \cup {"42", "[]"}
PayloadBatches ==
  UNION {[1..n -> [name : ToolNames, arguments : Payloads]] : n \in 1..MaxCalls}

\* The case of the request: the case the payloads name (c1), or another one.
RequestCases == {"c1", "c2"}

\* executeToolsParallel is entered with a batch, for a request of either case; the
\* master records of both cases exist.
InitPayloads ==
  /\ pc = "execTools"
  /\ \E b \in PayloadBatches, ids \in CallIds :
       toolCalls = [i \in DOMAIN b |->
                      [id |-> ids[i], name |-> b[i].name, arguments |-> b[i].arguments]]
  /\ db = [EmptyDb EXCEPT !.master_table = {MasterRow("c1"), [MasterRow("c2") EXCEPT !.id = "m2"]}]
  /\ tstate = <<>>
  /\ toolResults = <<>>
  /\ faulted = {}
  /\ \E c \in RequestCases : req = [NoRequest EXCEPT !.caseId = c]
  /\ conv = NoConversation
  /\ ai = NoAi
  /\ upstream = NoUpstream
  /\ relay = NoRelay
  /\ out = NoOut
  /\ response = NoResponse
  /\ awaited = NothingAwaited

SpecPayloads == InitPayloads /\ [][NextTools]_vars

(* --------------- a streamed turn with tool-call fragments -------------- *)

\* What the model service writes in SpecStream: a call in one piece (with
\* content), the two fragments of a call, each in its own record, the JSON text
\* null, and a last record with content and a call that has no newline after it.
StreamRecords ==
  {<<"data: ", "{delta:", "content:a", "tool_calls:task", "}", "NL">>,
   <<"data: ", "null", "NL">>,
   <<"data: ", "{delta:", "tool_calls:head", "}", "NL">>,
   <<"data: ", "{delta:", "tool_calls:tail", "}", "NL">>,
   <<"data: ", "{delta:", "content:b", "tool_calls:task", "}">>}

\* A streaming request of case c1 in conversation conv_1, at the point where
\* start(controller) awaits its first read.
InitStream ==
  /\ pc = "reading"
  /\ req = [NoRequest EXCEPT !.action = "researcher", !.conversationId = "conv_1",
                             !.stream = TRUE]
  /\ db = InitialDb
  /\ toolCalls = <<>>
  /\ tstate = <<>>
  /\ toolResults = <<>>
  /\ faulted = {}
  /\ conv = [active |-> "conv_1", isNew |-> FALSE,
             history |-> HistoryOf(InitialMessages, "conv_1")]
  /\ ai = [NoAi EXCEPT !.request = AiRequestBody(req), !.context = "case"]
  /\ upstream = NoUpstream
  /\ relay = NoRelay
  /\ out = [events |-> StartEvents(conv), state |-> "open"]
  /\ response = StreamResponse
  /\ awaited = [NothingAwaited EXCEPT !.history = "ok", !.case = "ok", !.model = "ok"]

NextStream ==
  \/ \E text \in StreamRecords : UpstreamSend(text)
  \/ \E n \in 1..Len(upstream.wire) : ReadChunk(n)
  \/ ReadDone
  \/ ReadError
  \/ SaveMessages
  \/ executeToolsParallel
  \/ \E i \in 1..Len(toolCalls) : executeSingleTool(i)
  \/ PromiseAll
  \/ StreamFinish

SpecStream == InitStream /\ [][NextStream]_vars

(* ------------------- the request submitted once more ------------------- *)

\* Most conversations created by submissions of the request, in SpecResubmit.
MaxAbandoned == 2

\* The conversations created since the initial state.
CreatedConversations == db.conversations \ InitialDb.conversations

\* The caller, answered 500, sends the same request again: the handler is invoked
\* anew, on the backend as the aborted invocation left it.
Resubmit ==
  /\ pc = "error500"
  /\ Cardinality(CreatedConversations) < MaxAbandoned
  /\ pc' = "validate"
  /\ conv' = NoConversation
  /\ ai' = NoAi
  /\ out' = NoOut
  /\ response' = NoResponse
  /\ awaited' = NothingAwaited
  /\ UNCHANGED <<db, toolVars, req, upstream, relay>>

NextResubmit ==
  \/ Validate
  \/ GetOrCreateConversation
  \/ FetchHistory
  \/ FetchCase
  \/ Resubmit

SpecResubmit == Init /\ [][NextResubmit]_vars

(* ------------------------------ claims ------------------------------- *)

Malformed(call) == ~JSONParseArguments(call.arguments).ok

\* The rows and collaborator invocations tool call i has written.
WrittenBy(d, i) ==
  {r \in d.tasks \cup d.hac_logs \cup d.functions \cup d.archive_searches : r.by = i}
    \cup {r \in d.oby_forms : r.id = i \/ i \in r.updatedBy}
    \cup {r \in d.master_table : i \in r.updatedBy}

\* C1: executeToolsParallel returns one result per call of the batch, and result i
\* carries the id and the name of call i, whatever the payloads and the outcomes
\* of the backend operations were.
C1_OneResultPerCall ==
  pc = "afterTools" =>
    /\ Len(toolResults) = Len(toolCalls)
    /\ \A i \in 1..Len(toolCalls) :
         /\ toolResults[i].tool_call_id = toolCalls[i].id
         /\ toolResults[i].name = toolCalls[i].name

\* C1 witness: a two-call batch of different tools has returned, one result a
\* failure (malformed payload) and the other a success after a backend write.
C1_Witness ==
  /\ pc = "afterTools"
  /\ Len(toolCalls) = 2
  /\ toolCalls[1].name # toolCalls[2].name
  /\ Malformed(toolCalls[1])
  /\ ~toolResults[1].result.success
  /\ toolResults[2].result.success
  /\ WrittenBy(db, 2) # {}

Without(seq, k) == [j \in 1..(Len(seq) - 1) |-> IF j < k THEN seq[j] ELSE seq[j + 1]]

\* The backend as the batch without call k leaves it: the positions after k,
\* which tag the rows, move down by one.
Pos(i, k) == IF i > k THEN i - 1 ELSE i
DbWithout(d, k) ==
  [d EXCEPT
     !.tasks = {[r EXCEPT !.by = Pos(@, k)] : r \in @},
     !.hac_logs = {[r EXCEPT !.by = Pos(@, k)] : r \in @},
     !.functions = {[r EXCEPT !.by = Pos(@, k)] : r \in @},
     !.archive_searches = {[r EXCEPT !.by = Pos(@, k)] : r \in @},
     !.oby_forms = {[r EXCEPT !.id = Pos(@, k),
                              !.updatedBy = {Pos(i, k) : i \in @}] : r \in @},
     !.master_table = {[r EXCEPT !.updatedBy = {Pos(i, k) : i \in @}] : r \in @}]
StatesWithout(ts, k) ==
  [j \in 1..(Len(ts) - 1) |->
     [Without(ts, k)[j] EXCEPT !.existingOby = Pos(@, k)]]

\* The step taken, seen with call k deleted from the batch, is a step of
\* executeToolsParallel on the batch without call k (or changes nothing).
StepWithout(k) ==
  LET calls == Without(toolCalls, k)
      before == DbWithout(db, k)
      after == DbWithout(db', k)
  IN
  CASE pc = "execTools" /\ pc' = "awaitTools" ->
         StatesWithout(tstate', k) = MapTools(calls) /\ after = before
    [] pc = "awaitTools" /\ pc' = "awaitTools" ->
         \/ StatesWithout(tstate', k) = StatesWithout(tstate, k) /\ after = before
         \/ \E j \in 1..Len(calls), outcome \in Outcomes :
              /\ StatesWithout(tstate, k)[j].at # "done"
              /\ LET r == ResumeTool(calls[j], StatesWithout(tstate, k)[j], outcome, j,
                                     before)
                 IN /\ StatesWithout(tstate', k) =
                         [StatesWithout(tstate, k) EXCEPT ![j] = r.st]
                    /\ after = r.db
    [] pc = "awaitTools" /\ pc' = "afterTools" ->
         /\ \A j \in 1..Len(calls) : Without(tstate, k)[j].at = "done"
         /\ Without(toolResults', k) = PromiseAllValues(calls, Without(tstate, k))
         /\ after = before
    [] OTHER -> FALSE

MalformedCallFails ==
  pc \in {"awaitTools", "afterTools"} =>
    \A k \in 1..Len(toolCalls) :
      Malformed(toolCalls[k]) =>
        /\ tstate[k].at = "done"
        /\ tstate[k].result.success = FALSE
        /\ tstate[k].result.message \notin {Undef, Null, ""}
        /\ WrittenBy(db, k) = {}
        /\ pc = "afterTools" => toolResults[k].result = tstate[k].result

\* C2: a call with a payload that is not JSON returns success=false with a message
\* and writes nothing; and every step of the batch, with that call deleted, is a
\* step of the batch without it: the siblings start, run, write and return exactly
\* as they do when the malformed call is absent.
C2_MalformedCallIsolated ==
  /\ []MalformedCallFails
  /\ [][\A k \in 1..Len(toolCalls) : Malformed(toolCalls[k]) => StepWithout(k)]_vars

\* C2 witness: the malformed call comes first, its sibling ran after it, wrote a row
\* and returned success.
C2_Witness ==
  /\ pc = "afterTools"
  /\ Len(toolCalls) = 2
  /\ Malformed(toolCalls[1])
  /\ toolCalls[2].name = "create_task"
  /\ toolResults[2].result.success
  /\ \E r \in db.tasks : r.by = 2

\* C3 (as claimed): a tool call one of whose backend operations failed, by an
\* exception or by a returned error value, returns success=false with a message.
C3_BackendFailureReported ==
  pc = "afterTools" =>
    \A i \in 1..Len(toolCalls) :
      i \in faulted =>
        /\ toolResults[i].result.success = FALSE
        /\ toolResults[i].result.message \notin {Undef, Null, ""}

\* The delta events among the events sent to the caller.
Deltas(events) == SelectSeq(events, LAMBDA e : e.type = "delta")
EventTypes(events) == [k \in 1..Len(events) |-> events[k].type]

\* C4: however the upstream text read so far was cut into chunks, the relay has
\* forwarded the deltas, accumulated the content and the tool calls, and holds the
\* residue, that reading the same text as one chunk gives: so any two ways of
\* cutting the same text give the same deltas, content and tool-call list.
C4_ChunkingImmaterial ==
  LET whole == ProcessChunk(NewRelay, relay.consumed) IN
  /\ Deltas(out.events) = whole.enqueued
  /\ relay.fullContent = whole.fullContent
  /\ toolCalls = whole.toolCalls
  /\ relay.buffer = whole.buffer

\* C4 witness: one `data:` record with content was read in two chunks, the first
\* ending inside the record, and its delta has been forwarded.
C4_Witness ==
  /\ relay.split
  /\ relay.consumed = <<"data: ", "{delta:", "content:a", "}", "NL">>
  /\ Deltas(out.events) = <<DeltaEvent(<<"a">>)>>
  /\ relay.fullContent = <<"a">>

\* The complete lines of a text: all pieces of the split but the last.
CompleteLines(text) == LET pieces == Split(text) IN SubSeq(pieces, 1, Len(pieces) - 1)
IsDataLine(line) == line # <<>> /\ Head(line) = "data: "
Payload(line) == Trim(Tail(line))
IsDoneLine(line) == IsDataLine(line) /\ Payload(line) = <<"[DONE]">>
MalformedLine(line) ==
  IsDataLine(line) /\ ~IsDoneLine(line) /\ ~JSONParse(Payload(line)).ok
LineContent(line) == ContentOf(JSONParse(Payload(line)).members)
ValidContentLine(line) ==
  /\ IsDataLine(line)
  /\ ~IsDoneLine(line)
  /\ JSONParse(Payload(line)).ok
  /\ ~JSONParse(Payload(line)).null
  /\ LineContent(line) # <<>>
RECURSIVE Concat(_)
Concat(seqs) == IF seqs = <<>> THEN <<>> ELSE Head(seqs) \o Concat(Tail(seqs))
ContentsOf(lines) ==
  LET valid == SelectSeq(lines, ValidContentLine)
  IN [k \in 1..Len(valid) |-> LineContent(valid[k])]
DeltasOf(lines) ==
  LET contents == ContentsOf(lines)
  IN [k \in 1..Len(contents) |-> DeltaEvent(contents[k])]

\* C5: the content of every valid `data:` line read so far has been forwarded as
\* a delta and accumulated, in order, whatever malformed `data:` lines came before
\* it in the same or in an earlier chunk; and a stream that was read to its end
\* closes with the terminal [DONE] event.
C5_MalformedLineSkipped ==
  LET lines == CompleteLines(relay.consumed) IN
  /\ Deltas(out.events) = DeltasOf(lines)
  /\ relay.fullContent = Concat(ContentsOf(lines))
  /\ pc = "closed" =>
       /\ out.state = "closed"
       /\ out.events # <<>>
       /\ out.events[Len(out.events)].type = "[DONE]"

\* C5 witness: a `data:` line with truncated JSON was followed by a valid content
\* line; the content was forwarded and the stream closed with [DONE].
C5_Witness ==
  /\ pc = "closed"
  /\ relay.consumed = <<"data: ", "{delta:", "content:a", "NL",
                        "data: ", "{delta:", "content:b", "}", "CR", "NL">>
  /\ MalformedLine(CompleteLines(relay.consumed)[1])
  /\ EventTypes(out.events) = <<"delta", "[DONE]">>
  /\ out.events[1] = DeltaEvent(<<"b">>)

Rank(type) ==
  CASE type = "conversationId" -> 0
    [] type = "delta" -> 1
    [] type = "toolResults" -> 2
    [] type = "[DONE]" -> 3
CountType(events, type) == Len(SelectSeq(events, LAMBDA e : e.type = type))

\* C6: the events of a streaming response are in the order conversationId, deltas,
\* toolResults, [DONE]; there is at most one conversationId event, only when this
\* request created the conversation, and it carries the new id; at most one
\* toolResults event; a stream that closed normally has exactly one [DONE], as its
\* last event, and [DONE] is sent only when closing.
C6_EventOrder ==
  LET ev == out.events IN
  /\ \A i, j \in 1..Len(ev) : i < j => Rank(ev[i].type) <= Rank(ev[j].type)
  /\ CountType(ev, "conversationId") <= 1
  /\ CountType(ev, "toolResults") <= 1
  /\ CountType(ev, "[DONE]") <= 1
  /\ CountType(ev, "conversationId") = 1 =>
       /\ req.conversationId = Undef
       /\ awaited.conversation = "ok"
       /\ ev[1].data = <<NewConversationId>>
       /\ \E c \in db.conversations \ InitialDb.conversations : c.id = NewConversationId
  /\ out.state = "closed" =>
       /\ CountType(ev, "[DONE]") = 1
       /\ ev[Len(ev)].type = "[DONE]"
  /\ CountType(ev, "[DONE]") = 1 => out.state = "closed"

\* C6 witness: a stream closed after sending all four kinds of events.
C6_Witness ==
  /\ out.state = "closed"
  /\ EventTypes(out.events) = <<"conversationId", "delta", "toolResults", "[DONE]">>

\* The lines before the first [DONE] line.
RECURSIVE BeforeDone(_)
BeforeDone(lines) ==
  IF lines = <<>> \/ IsDoneLine(Head(lines)) THEN <<>>
  ELSE <<Head(lines)>> \o BeforeDone(Tail(lines))

\* C7 (as claimed): the deltas forwarded are those of the lines read before the
\* upstream [DONE] line; content lines after it are not forwarded.
C7_NothingForwardedAfterDone ==
  Deltas(out.events) = DeltasOf(BeforeDone(CompleteLines(relay.consumed)))

\* The messages this request has appended to the store.
Appended == SubSeq(db.messages, Len(InitialMessages) + 1, Len(db.messages))
CountRole(messages, role) == Len(SelectSeq(messages, LAMBDA m : m.role = role))
Completed == pc \in {"closed", "responded"}
PastSave == {"execTools", "awaitTools", "afterTools", "closed", "responded"}

\* C8 (as claimed): a request whose model call succeeded has, when it completes,
\* appended exactly one user and one assistant message; never more than one of each.
C8_AlwaysOneMessagePair ==
  /\ CountRole(Appended, "user") <= 1
  /\ CountRole(Appended, "assistant") <= 1
  /\ (awaited.model = "ok" /\ Completed) =>
       /\ CountRole(Appended, "user") = 1
       /\ CountRole(Appended, "assistant") = 1

\* C8 (amended): the request appends at most one user and one assistant message,
\* in one insert that is issued exactly when the request has an active conversation
\* id and the model call succeeded; streaming, only after the upstream was read to
\* its end; when the store accepts the insert the pair is the prompt and the reply,
\* in that order, and otherwise nothing is appended; earlier messages are untouched.
C8_MessagePairWhenConversation ==
  /\ CountRole(Appended, "user") <= 1
  /\ CountRole(Appended, "assistant") <= 1
  /\ SubSeq(db.messages, 1, Len(InitialMessages)) = InitialMessages
  /\ awaited.save # "none" =>
       /\ conv.active # Undef
       /\ awaited.model = "ok"
       /\ pc # "reading"
       /\ req.stream => upstream.wire = <<>>
  /\ (pc \in PastSave /\ conv.active # Undef) => awaited.save \in {"ok", "error"}
  /\ (pc \in PastSave /\ conv.active = Undef) => awaited.save = "none"
  /\ awaited.save # "ok" => Appended = <<>>
  /\ awaited.save = "ok" =>
       /\ Len(Appended) = 2
       /\ \A k \in 1..2 : Appended[k].conversation_id = conv.active
       /\ Appended[1].role = "user"
       /\ Appended[1].content = Text(req.prompt)
       /\ Appended[2].role = "assistant"
       /\ Appended[2].content = AssistantContent
       /\ Appended[2].tool_calls = toolCalls

\* C8 witness: a streaming request with a conversation closed after appending the
\* prompt and the streamed reply.
C8_Witness ==
  /\ pc = "closed"
  /\ req.stream
  /\ awaited.save = "ok"
  /\ Len(Appended) = 2
  /\ Appended[2].content = Text(<<"a", "b">>)

\* The request-level audit rows.
InteractionLogs == {l \in db.hac_logs : l.action_type = "ai_agent"}

\* C9 (as claimed): a completed request with a caseId whose model call succeeded,
\* streaming or not, has issued the insert of its audit entry, and when the store
\* accepted it there is exactly one, with the reply preview cut at PreviewLength,
\* the conversation id and the number of tool calls.
C9_AuditEntryWritten ==
  (req.caseId # Undef /\ awaited.model = "ok" /\ Completed) =>
    /\ awaited.log # "none"
    /\ awaited.log = "ok" =>
         InteractionLogs = {InteractionLog(req, conv, AssistantContent, toolCalls)}

\* C10 (as claimed): a valid non-streaming request with a caseId that ends in a
\* success response carries a conversationId that is not null.
C10_ConversationIdNonNull ==
  (pc = "responded" /\ req.valid /\ ~req.stream /\ req.caseId # Undef
     /\ response.status = 200) =>
    response.conversationId # Undef

\* C11: a request whose body fails validation never gets past the validation
\* gate: it is answered 400, and no conversation was created, no message appended,
\* no case read, no model call made, no tool started, no audit entry written and
\* no stream opened.
C11_RejectedBeforeSideEffects ==
  ~req.valid =>
    /\ pc \in {"validate", "rejected400"}
    /\ pc = "rejected400" => response.status = 400
    /\ db = InitialDb
    /\ awaited = NothingAwaited
    /\ conv = NoConversation
    /\ toolCalls = <<>> /\ tstate = <<>> /\ toolResults = <<>>
    /\ ai = NoAi
    /\ out = NoOut

\* C11 witness: an invalid request with a caseId has been answered 400.
C11_Witness ==
  /\ ~req.valid
  /\ req.caseId # Undef
  /\ pc = "rejected400"
  /\ response.status = 400

\* The messages of a conversation, in creation order.
MessagesOf(id) == SelectSeq(db.messages, LAMBDA m : m.conversation_id = id)

\* C12 (as claimed): the history replayed to the model is the 20 most recent
\* messages of the conversation, oldest of them first; all of them when the
\* conversation holds 20 or fewer.
C12_HistoryIsMostRecent ==
  awaited.history = "ok" =>
    LET mine == MessagesOf(conv.active)
        n == Len(mine)
    IN conv.history = SubSeq(mine, IF n > 20 THEN n - 19 ELSE 1, n)

\* The user and the assistant message of one turn: the turn stored before the
\* request, the turn of this request, or the turn of another request.
SameTurn(u, a) ==
  \/ <<u, a>> = InitialMessages
  \/ <<u, a>> = OtherTurn
  \/ /\ u.content = Text(req.prompt)
     /\ a.content = AssistantContent
     /\ a.tool_calls = toolCalls
     /\ awaited.save = "ok"

ObyCalls ==
  {i \in 1..Len(toolCalls) :
     toolCalls[i].name = "create_oby_draft" /\ toolCalls[i].arguments = RawObject}
ObyDrafts == {r \in db.oby_forms : r.case_id = "c1"}

\* C14: when create_oby_draft calls for the same case have run one after the
\* other, the master record there and every backend operation succeeding, the
\* store holds exactly one draft of the case: the first call inserted it and
\* reports 'created', every later call found it, updated it and reports 'updated'.
C14_SecondDraftUpdates ==
  (pc = "afterTools" /\ Cardinality(ObyCalls) >= 2 /\ ObyCalls \cap faulted = {}) =>
    LET first == CHOOSE i \in ObyCalls : \A j \in ObyCalls : i <= j IN
    /\ Cardinality(ObyDrafts) = 1
    /\ \A r \in ObyDrafts : r.id = first /\ r.updatedBy = ObyCalls \ {first}
    /\ toolResults[first].result = Success("OBY draft created")
    /\ \A j \in ObyCalls \ {first} : toolResults[j].result = Success("OBY draft updated")

\* C14 witness: two create_oby_draft calls ran one after the other; one draft.
C14_Witness ==
  /\ pc = "afterTools"
  /\ ObyCalls = {1, 2}
  /\ faulted = {}
  /\ Cardinality(ObyDrafts) = 1
  /\ toolResults[2].result = Success("OBY draft updated")

\* C15 (as claimed): when the calls of a batch have run interleaved, every
\* backend operation succeeding, the drafts of the case are what some sequential
\* execution of the create_oby_draft calls leaves: exactly one draft, inserted by
\* one of the calls and updated by each of the others.
C15_InterleavingSerializable ==
  (pc = "afterTools" /\ Cardinality(ObyCalls) >= 2 /\ ObyCalls \cap faulted = {}) =>
    \E first \in ObyCalls :
      /\ Cardinality(ObyDrafts) = 1
      /\ \A r \in ObyDrafts : r.id = first /\ r.updatedBy = ObyCalls \ {first}

ErroredStream ==
  out.state = "errored" =>
    /\ pc = "errored"
    /\ CountType(out.events, "[DONE]") = 0
    /\ CountType(out.events, "toolResults") = 0
    /\ Deltas(out.events) = DeltasOf(CompleteLines(relay.consumed))

\* C16: when a read of the upstream fails, the output stream goes to the error
\* state with the events sent so far untouched; a stream in the error state holds
\* no [DONE] and no toolResults event, holds the deltas of everything read before
\* the failure, and never changes again.
C16_ReadFailureEndsInError ==
  /\ []ErroredStream
  /\ [][(pc = "reading" /\ pc' = "errored") =>
          (out'.state = "errored" /\ out'.events = out.events)]_vars
  /\ [][out.state = "errored" => out' = out]_vars

\* C16 witness: the read failed after a delta was forwarded, with upstream text
\* still unread.
C16_Witness ==
  /\ pc = "errored"
  /\ out.state = "errored"
  /\ Len(Deltas(out.events)) >= 1
  /\ upstream.wire # <<>>

\* C17: once the non-streaming response is returned, or the toolResults event or
\* [DONE] is sent, no tool call of the request is pending: every call that was
\* started has returned, and when tools were to run, every call of the batch was
\* started and the results given out are the results the calls returned.
C17_NothingEmittedBeforeToolsResolve ==
  (\/ pc \in {"closed", "responded"}
   \/ CountType(out.events, "toolResults") > 0
   \/ CountType(out.events, "[DONE]") > 0) =>
    /\ \A i \in 1..Len(tstate) : tstate[i].at = "done"
    /\ ToolsWanted =>
         /\ Len(tstate) = Len(toolCalls)
         /\ Len(toolResults) = Len(toolCalls)
         /\ \A i \in 1..Len(toolCalls) : toolResults[i].result = tstate[i].result
         /\ req.stream =>
              \E k \in 1..Len(out.events) :
                out.events[k].type = "toolResults" /\ out.events[k].data = toolResults
         /\ (~req.stream /\ pc = "responded") => response.toolResults = toolResults

\* C17 witness: a non-streaming request answered after both calls of its batch
\* returned, one of them after its backend write.
C17_Witness ==
  /\ pc = "responded"
  /\ ToolsWanted
  /\ Len(toolCalls) = 2
  /\ response.toolResults = toolResults
  /\ toolResults[2].result.success
  /\ \E r \in db.tasks : r.by = 2

Failed(outcome) == outcome \in {"error", "throw"}
NoTurnSaved == Appended = <<>> /\ awaited.save = "none"
NoToolRun == tstate = <<>> /\ toolResults = <<>> /\ db.tasks = {} /\ db.functions = {}

\* C18: when the case fetch reports an error, or the model service answers with
\* a failure, the request ends with one 500 response and no stream; after a
\* failed case fetch no model call is made; in both cases no message is saved
\* and no tool runs; and neither operation is issued again once it has resolved.
C18_DependencyFailureAborts ==
  /\ [](Failed(awaited.case) =>
          /\ pc = "error500" /\ response = ErrorResponse(500) /\ out = NoOut
          /\ awaited.model = "none"
          /\ NoTurnSaved /\ NoToolRun)
  /\ [](Failed(awaited.model) =>
          /\ pc = "error500" /\ response = ErrorResponse(500) /\ out = NoOut
          /\ NoTurnSaved /\ NoToolRun)
  /\ [][/\ awaited.case # "none" => awaited'.case = awaited.case
        /\ awaited.model # "none" => awaited'.model = awaited.model]_vars

\* C18 witness: the case fetch of a streaming request reported an error, after
\* the conversation had been created.
C18_Witness ==
  /\ awaited.case = "error"
  /\ awaited.conversation = "ok"
  /\ req.stream
  /\ pc = "error500"
  /\ response.status = 500

AllowList ==
  {"researcher", "comprehensive", "document_intelligence", "auto_populate_forms",
   "task_suggest"}
OtherActions ==
  {"security_audit", "eligibility_analysis", "wsc_strategy", "translator", ""}
WithTools(body, allowed) ==
  /\ body.tools = allowed
  /\ body.tool_choice = IF allowed THEN "auto" ELSE Undef

\* C19: the request body built for the model carries the tool registry and
\* tool_choice=auto exactly when the action is one of researcher, comprehensive,
\* document_intelligence, auto_populate_forms, task_suggest, whether streaming or
\* not; and the body sent by the handler is the one built for its action and mode.
C19_ToolsOnlyForAllowList ==
  /\ \A a \in AllowList \cup OtherActions, s \in BOOLEAN :
       LET body == AiRequestBody([req EXCEPT !.action = a, !.stream = s])
       IN WithTools(body, a \in AllowList) /\ body.stream = s
  /\ awaited.model # "none" =>
       /\ WithTools(ai.request, req.action \in AllowList)
       /\ ai.request.stream = req.stream

\* C19 witness: a streaming researcher request was sent with the tools, and
\* the model stream opened.
C19_Witness ==
  /\ awaited.model = "ok"
  /\ req.action = "researcher"
  /\ req.stream
  /\ pc = "reading"
  /\ ai.request.tools
  /\ ai.request.tool_choice = "auto"

\* C20: for action security_audit the case is never fetched and the context, once
\* built, is the fixed audit summary; without a caseId no conversation is created
\* either; and the request is not stopped before the model call for lack of a
\* case: it ends in a 500 before that call only when a store operation threw.
C20_AuditNeedsNoCase ==
  req.action = "security_audit" =>
    /\ awaited.case = "none"
    /\ ai.context \in {"none", "audit"}
    /\ awaited.model # "none" => ai.context = "audit"
    /\ req.caseId = Undef =>
         /\ awaited.conversation = "none"
         /\ ~conv.isNew
         /\ db.conversations = InitialDb.conversations
    /\ (pc = "error500" /\ awaited.model = "none") =>
         (awaited.conversation = "throw" \/ awaited.history = "throw")
    /\ (pc = "error500" /\ req.caseId = Undef /\ req.conversationId = Undef) =>
         Failed(awaited.model)

\* C20 witness: a security_audit request with no caseId and no conversationId was
\* answered 200 after the model call, with the audit context.
C20_Witness ==
  /\ req.action = "security_audit"
  /\ req.caseId = Undef
  /\ req.conversationId = Undef
  /\ ai.context = "audit"
  /\ awaited.model = "ok"
  /\ pc = "responded"
  /\ response.status = 200

\* The create_task calls of the batch whose payload is the object with caseId c1,
\* title "Collect passport" and priority high, and nothing else create_task reads.
TaskCalls ==
  {i \in 1..Len(toolCalls) :
     toolCalls[i].name = "create_task" /\ toolCalls[i].arguments = RawObject}
TasksBy(i) == {r \in db.tasks : r.by = i}

\* C21: a create_task call with caseId, title and priority never inserts more than
\* one task; when the store accepts its insert, the call has inserted exactly one task
\* of that case with that title and priority, status 'pending', description empty,
\* category 'general' and due date null, has written nothing else, and returns
\* success=true with a message that carries the title.
C21_CreateTaskInsertsPendingTask ==
  \A i \in TaskCalls :
    /\ Cardinality(TasksBy(i)) <= 1
    /\ (Len(tstate) >= i /\ tstate[i].at = "done" /\ i \notin faulted) =>
         /\ TasksBy(i) =
              {[case_id |-> "c1", title |-> "Collect passport", description |-> "",
                priority |-> "high", category |-> "general", due_date |-> Null,
                status |-> "pending", by |-> i]}
         /\ WrittenBy(db, i) = TasksBy(i)
         /\ tstate[i].result.success = TRUE
         /\ tstate[i].result.message = "Task created"
         /\ tstate[i].result.title = "Collect passport"
         /\ pc = "afterTools" => toolResults[i].result = tstate[i].result

\* C21 witness: a create_task call beside a sibling has returned, its task is in
\* the store and its result is in the results of the batch.
C21_Witness ==
  /\ pc = "afterTools"
  /\ Len(toolCalls) = 2
  /\ 2 \in TaskCalls
  /\ 2 \notin faulted
  /\ Cardinality(TasksBy(2)) = 1
  /\ toolResults[2].result.success
  /\ toolResults[2].result.title = "Collect passport"

\* A payload that parses as JSON to something that is not an object.
NotAnObject(call) ==
  LET parsed == JSONParseArguments(call.arguments)
  IN parsed.ok /\ parsed.value.kind # "object"

\* C22 (as claimed): a call whose payload parses as JSON but is not an object (a
\* number, an array, null) returns success=false and has written nothing, and the
\* batch returns its results.
C22_NonObjectPayloadIsCallError ==
  pc = "afterTools" =>
    /\ Len(toolResults) = Len(toolCalls)
    /\ \A i \in 1..Len(toolCalls) :
         NotAnObject(toolCalls[i]) =>
           /\ toolResults[i].result.success = FALSE
           /\ WrittenBy(db, i) = {}

\* The case a call's payload names: c1 in the object payload, none otherwise.
ArgumentCase(call) == IF call.arguments = RawObject THEN "c1" ELSE Undef

\* C28: whatever the case of the request, every row a tool call has inserted or
\* updated (task, audit row, archive search, OBY draft, master record) belongs to
\* the case named in the call's own payload, the generate-poa collaborator is
\* invoked for that case, and nothing of any other case, the request's included,
\* is touched by the call.
C28_HandlersUseArgumentCase ==
  \A i \in 1..Len(toolCalls) :
    LET c == ArgumentCase(toolCalls[i]) IN
    /\ \A r \in db.tasks \cup db.hac_logs \cup db.archive_searches : r.by = i => r.case_id = c
    /\ \A r \in db.oby_forms : (r.id = i \/ i \in r.updatedBy) => r.case_id = c
    /\ \A r \in db.master_table : i \in r.updatedBy => r.case_id = c
    /\ \A r \in db.functions : (r.by = i /\ r.fn = "generate-poa") => r.caseId = c
    /\ req.caseId # c =>
         \A r \in WrittenBy(db, i) : r \notin db.functions => r.case_id # req.caseId

\* C28 witness: serving a request of case c2, an update_master_data call naming
\* case c1 has updated the master record of c1 and logged it for c1.
C28_Witness ==
  /\ pc = "afterTools"
  /\ req.caseId = "c2"
  /\ toolCalls[1].name = "update_master_data"
  /\ \E r \in db.master_table : r.case_id = "c1" /\ 1 \in r.updatedBy
  /\ \A r \in db.master_table : r.case_id = "c2" => r.updatedBy = {}
  /\ \E r \in db.hac_logs : r.case_id = "c1" /\ r.by = 1
  /\ toolResults[1].result.success

\* The text carried by the delta events sent so far, one piece per event.
DeltaData(events) == LET d == Deltas(events) IN [k \in 1..Len(d) |-> d[k].data]

\* C23: at every point of a streaming response the pieces of the deltas sent so
\* far, put together, are fullContent; there is one delta per content fragment
\* read that is not empty, in the order of the fragments upstream, none of them
\* empty; and when the turn is saved, the content of the assistant message is the
\* pieces of all deltas of the response put together.
C23_DeltasAreTheContent ==
  req.stream =>
    /\ Concat(DeltaData(out.events)) = relay.fullContent
    /\ DeltaData(out.events) = ContentsOf(CompleteLines(relay.consumed))
    /\ \A k \in 1..Len(DeltaData(out.events)) : DeltaData(out.events)[k] # <<>>
    /\ awaited.save = "ok" =>
         /\ Appended[Len(Appended)].role = "assistant"
         /\ Appended[Len(Appended)].content = Text(Concat(DeltaData(out.events)))

\* C23 witness: two fragments were streamed, forwarded as two deltas in their
\* order, and saved as one assistant message, and the stream closed.
C23_Witness ==
  /\ req.stream
  /\ pc = "closed"
  /\ DeltaData(out.events) = <<<<"a">>, <<"a">>>>
  /\ awaited.save = "ok"
  /\ Appended[2].content = Text(<<"a", "a">>)

ToolsEvents == CountType(out.events, "toolResults")

\* C24: once the turn is past its save, the tools have been started exactly when
\* the turn has at least one tool call and the request a caseId, and then every
\* call of the turn is run and, when the request completes, its results are given
\* out (one toolResults event, or the toolResults of the response); otherwise no
\* call is started, nothing is written by a tool, the stream has no toolResults
\* event and the response has the empty list; in both cases the assistant message,
\* when saved, carries the tool calls.
C24_ToolsNeedCallsAndCase ==
  /\ tstate # <<>> => (Len(toolCalls) > 0 /\ req.caseId # Undef)
  /\ (pc \in {"awaitTools", "afterTools", "closed", "responded"}
        /\ Len(toolCalls) > 0 /\ req.caseId # Undef) =>
       /\ Len(tstate) = Len(toolCalls)
       /\ pc = "closed" => (ToolsEvents = 1 /\ Len(toolResults) = Len(toolCalls))
       /\ pc = "responded" =>
            (response.toolResults = toolResults /\ Len(toolResults) = Len(toolCalls))
  /\ (Len(toolCalls) = 0 \/ req.caseId = Undef) =>
       /\ tstate = <<>> /\ toolResults = <<>>
       /\ db.tasks = {} /\ db.functions = {}
       /\ {l \in db.hac_logs : l.by # 0} = {}
       /\ db.master_table = InitialDb.master_table
       /\ ToolsEvents = 0
       /\ response.toolResults = <<>>
  /\ awaited.save = "ok" => Appended[Len(Appended)].tool_calls = toolCalls

\* C24 witness: a request without a caseId, in conversation conv_1, was answered
\* after the model asked for a tool: the call is saved on the assistant message,
\* no tool ran and the response carries no results.
C24_Witness ==
  /\ pc = "responded"
  /\ req.caseId = Undef
  /\ Len(toolCalls) > 0
  /\ awaited.save = "ok"
  /\ Appended[2].tool_calls = toolCalls
  /\ tstate = <<>>
  /\ db.tasks = {}
  /\ response.status = 200
  /\ response.toolResults = <<>>

\* The calls of the batch that name no tool of the registry, once started.
UnknownCalls == {i \in 1..Len(tstate) : toolCalls[i].name \notin AGENT_TOOLS}

\* C25 (as claimed): the switch recognises exactly the names of the registry, and
\* a call naming any other tool returns success=false with the message 'Unknown
\* tool' and has written nothing.
C25_UnknownToolRejected ==
  /\ DispatchNames = AGENT_TOOLS
  /\ \A i \in UnknownCalls :
       /\ tstate[i].at = "done"
       /\ tstate[i].result = Failure("Unknown tool")
       /\ WrittenBy(db, i) = {}

\* C25 (amended): the switch recognises exactly the names of the registry; a call
\* naming any other tool returns at once, success=false, and has written nothing;
\* its message is 'Unknown tool' when its payload parses as JSON and the parse
\* error when it does not; and a call naming a tool of the registry never returns
\* 'Unknown tool' when its payload parses.
C25_UnknownToolRejectedAfterParse ==
  /\ DispatchNames = AGENT_TOOLS
  /\ \A i \in UnknownCalls :
       /\ tstate[i].at = "done"
       /\ tstate[i].result.success = FALSE
       /\ WrittenBy(db, i) = {}
       /\ tstate[i].result.message =
            IF Malformed(toolCalls[i]) THEN "SyntaxError: not valid JSON" ELSE "Unknown tool"
       /\ pc = "afterTools" => toolResults[i].result = tstate[i].result
  /\ \A i \in 1..Len(tstate) :
       (toolCalls[i].name \in AGENT_TOOLS /\ tstate[i].at = "done"
          /\ ~Malformed(toolCalls[i])) =>
         tstate[i].result.message # "Unknown tool"

\* C25 witness: a call naming delete_case, with an object payload, returned
\* 'Unknown tool' beside a registered tool that ran and wrote.
C25_Witness ==
  /\ pc = "afterTools"
  /\ Len(toolCalls) = 2
  /\ toolCalls[1].name = "delete_case"
  /\ toolCalls[1].arguments = RawObject
  /\ toolResults[1].result = Failure("Unknown tool")
  /\ toolCalls[2].name \in AGENT_TOOLS
  /\ toolResults[2].result.success
  /\ WrittenBy(db, 2) # {}

\* The lines whose payload parses to an object, and the tool-call fragments they
\* carry, one after the other.
ParsedLine(line) ==
  /\ IsDataLine(line)
  /\ ~IsDoneLine(line)
  /\ JSONParse(Payload(line)).ok
  /\ ~JSONParse(Payload(line)).null
RECURSIVE FragmentsOf(_)
FragmentsOf(lines) ==
  IF lines = <<>> THEN <<>>
  ELSE (IF ParsedLine(Head(lines))
        THEN ToolCallsOf(JSONParse(Payload(Head(lines))).members) ELSE <<>>)
         \o FragmentsOf(Tail(lines))
ResultsSent ==
  LET ev == SelectSeq(out.events, LAMBDA e : e.type = "toolResults") IN ev[1].data

\* C26: in streaming mode the tool-call list is the fragments of the lines read,
\* each its own element in the order received, none merged with another; when the
\* tools run every element is started as a call of its own, and the toolResults
\* event of a closed stream has one entry per fragment, entry k carrying the id of
\* fragment k, a failure when the argument text of fragment k is not JSON by itself.
C26_FragmentsRunSeparately ==
  LET fragments == FragmentsOf(CompleteLines(relay.consumed)) IN
  /\ toolCalls = fragments
  /\ pc \in {"awaitTools", "afterTools"} => Len(tstate) = Len(fragments)
  /\ (pc = "closed" /\ fragments # <<>>) =>
       /\ CountType(out.events, "toolResults") = 1
       /\ Len(ResultsSent) = Len(fragments)
       /\ \A k \in 1..Len(fragments) :
            /\ ResultsSent[k].tool_call_id = fragments[k].id
            /\ ResultsSent[k].name = fragments[k].name
            /\ ~JSONParseArguments(fragments[k].arguments).ok =>
                 ResultsSent[k].result.success = FALSE

\* C26 witness: the two fragments of one create_task call came in two records;
\* the stream closed with two failed results and no task was created.
C26_Witness ==
  /\ pc = "closed"
  /\ relay.consumed = <<"data: ", "{delta:", "tool_calls:head", "}", "NL",
                        "data: ", "{delta:", "tool_calls:tail", "}", "NL">>
  /\ Len(toolCalls) = 2
  /\ Len(ResultsSent) = 2
  /\ ~ResultsSent[1].result.success
  /\ ~ResultsSent[2].result.success
  /\ db.tasks = {}

\* What follows the last newline of the text read: the unterminated rest.
Unterminated(text) == LET pieces == Split(text) IN pieces[Len(pieces)]
UpstreamEnded == pc \in {"saveMessages", "execTools", "awaitTools", "afterTools", "closed"}

\* C27: the buffer holds what follows the last newline read and only the lines
\* before it are processed; when the upstream has ended, the deltas sent, the
\* content and the tool-call list are those of the newline-terminated lines, a
\* `data:` record left without a newline adds no delta, no content and no tool
\* call, and the assistant message saved holds the content and the tool calls of
\* the terminated lines only.
C27_ResidueDiscarded ==
  LET lines == CompleteLines(relay.consumed)
      rest == Unterminated(relay.consumed)
  IN
  /\ relay.buffer = rest
  /\ UpstreamEnded =>
       /\ Deltas(out.events) = DeltasOf(lines)
       /\ relay.fullContent = Concat(ContentsOf(lines))
       /\ toolCalls = FragmentsOf(lines)
       /\ ValidContentLine(rest) =>
            /\ Len(Deltas(out.events)) < Len(DeltasOf(Append(lines, rest)))
            /\ Len(toolCalls) < Len(FragmentsOf(Append(lines, rest)))
       /\ awaited.save = "ok" =>
            /\ Appended[2].content = Text(Concat(ContentsOf(lines)))
            /\ Appended[2].tool_calls = FragmentsOf(lines)

\* C27 witness: the upstream ended after a terminated record and one without a
\* newline; the stream closed with the delta of the first only, and the saved
\* message holds the content and the call of the first only.
C27_Witness ==
  /\ pc = "closed"
  /\ relay.consumed = <<"data: ", "{delta:", "content:a", "tool_calls:task", "}", "NL",
                        "data: ", "{delta:", "content:b", "tool_calls:task", "}">>
  /\ relay.buffer = <<"data: ", "{delta:", "content:b", "tool_calls:task", "}">>
  /\ Deltas(out.events) = <<DeltaEvent(<<"a">>)>>
  /\ awaited.save = "ok"
  /\ Appended[2].content = Text(<<"a">>)
  /\ Len(Appended[2].tool_calls) = 1

\* The steps of the non-streaming path that are behind the request.
SavePast == awaited.save \in {"ok", "error"} \/ (conv.active = Undef /\ awaited.model = "ok")
ToolsPast ==
  /\ \A i \in 1..Len(tstate) : tstate[i].at = "done"
  /\ (Len(toolCalls) > 0 /\ req.caseId # Undef) =>
       (Len(tstate) = Len(toolCalls) /\ Len(toolResults) = Len(toolCalls))
\* The two rows of this request's turn are in the store, one after the other.
OwnTurnSaved ==
  \E k \in 1..(Len(db.messages) - 1) :
    /\ db.messages[k].role = "user"
    /\ db.messages[k].content = Text(req.prompt)
    /\ db.messages[k].conversation_id = conv.active
    /\ db.messages[k + 1].role = "assistant"
    /\ db.messages[k + 1].content = ai.responseContent
    /\ db.messages[k + 1].tool_calls = toolCalls
\* The completion has no content (null) and the request has a caseId.
NullAtAudit ==
  ~req.stream /\ req.caseId # Undef /\ awaited.model = "ok" /\ ai.responseContent.null
StepOrder ==
  /\ tstate # <<>> => SavePast
  /\ awaited.log # "none" => (SavePast /\ ToolsPast)
  /\ pc = "responded" =>
       /\ SavePast /\ ToolsPast
       /\ req.caseId # Undef => awaited.log \in {"ok", "error"}
  /\ awaited.save = "ok" => OwnTurnSaved
AuditErrorAfterEffects ==
  NullAtAudit =>
    /\ pc # "responded"
    /\ awaited.log = "none"
    /\ (pc = "error500" /\ awaited.save # "throw") =>
         /\ response = ErrorResponse(500)
         /\ ToolsPast
         /\ awaited.save = "ok" => OwnTurnSaved
         /\ \A i \in 1..Len(tstate) :
              (toolCalls[i].name = "create_task" /\ i \notin faulted
                 /\ ~Malformed(toolCalls[i])) => \E r \in db.tasks : r.by = i

\* C29: in the non-streaming path the save of the two messages comes before the
\* start of the tool batch, the batch has returned before the audit entry is
\* issued, and the response is returned after that; and a completion whose content
\* is null, on a request with a caseId, never gets a success response and no audit
\* entry: the request ends in the 500 error response with its messages saved and
\* the writes of its tools in the store.
C29_AuditErrorComesLast ==
  /\ []StepOrder
  /\ []AuditErrorAfterEffects
  /\ [][awaited'.save # awaited.save =>
          (pc = "saveMessages" /\ tstate = <<>> /\ awaited.log = "none")]_vars
  /\ [][(tstate = <<>> /\ tstate' # <<>>) => (SavePast /\ awaited.log = "none")]_vars
  /\ [][awaited'.log # awaited.log => (pc = "afterTools" /\ SavePast /\ ToolsPast)]_vars
  /\ [][(pc # "responded" /\ pc' = "responded") => pc = "afterTools"]_vars

\* C29 witness: a completion with one tool call and null content, for a request
\* with a caseId: the turn is saved, the task created, and the answer is the 500.
C29_Witness ==
  /\ NullAtAudit
  /\ pc = "error500"
  /\ response.status = 500
  /\ awaited.save = "ok"
  /\ OwnTurnSaved
  /\ Len(toolCalls) = 1
  /\ \E r \in db.tasks : r.by = 1
  /\ awaited.log = "none"

ConversationBeforeCase ==
  awaited.case # "none" =>
    ((req.conversationId = Undef /\ req.caseId # Undef) =>
       awaited.conversation \in {"ok", "error"})
AbandonedConversation ==
  (pc = "error500" /\ Failed(awaited.case) /\ awaited.conversation = "ok") =>
    /\ req.conversationId = Undef
    /\ \E c \in CreatedConversations :
         c.id = conv.active /\ c.case_id = req.caseId /\ c.agent_type = req.action
    /\ \A c \in CreatedConversations : MessagesOf(c.id) = <<>>

\* C30: the conversation is created before the case is fetched; when a request
\* with a caseId and no conversationId is aborted by a failed case fetch, the
\* conversation it created stays in the store, with no message; no step removes a
\* conversation, and every submission whose insert the store accepts adds one
\* more conversation record.
C30_AbortLeavesEmptyConversation ==
  /\ []ConversationBeforeCase
  /\ []AbandonedConversation
  /\ [][db.conversations \subseteq db'.conversations]_vars
  /\ [][(pc = "conversation" /\ awaited'.conversation = "ok") =>
          Cardinality(db'.conversations) = Cardinality(db.conversations) + 1]_vars

\* C30 witness: the request was submitted twice and aborted twice by the failed
\* case fetch; two conversations of its case are in the store, both without
\* messages.
C30_Witness ==
  /\ pc = "error500"
  /\ awaited.case = "error"
  /\ awaited.conversation = "ok"
  /\ req.caseId = "c1"
  /\ req.conversationId = Undef
  /\ Cardinality(CreatedConversations) = 2
  /\ \A c \in CreatedConversations : c.case_id = "c1" /\ MessagesOf(c.id) = <<>>

====
